---- MODULE Spec2Model ----
(***************************************************************************)
(* Model of the synchronization engine of pimalaya-core (email crate):     *)
(*   - folder/sync/patch.rs : build_patch, FolderSyncPatchManager          *)
(*     (build_patches, process_hunk, apply_patches)                        *)
(*   - email/sync/mod.rs    : sync (envelope listing, email patch, hunk    *)
(*     executor)                                                           *)
(* One behaviour is a sequence of synchronization runs of one account:     *)
(* folder patch built, folder hunks spawned and processed concurrently,    *)
(* folder cache transaction, then the email synchronization of the         *)
(* folders named by the folder report.                                     *)
(***************************************************************************)
EXTENDS Integers, Sequences, FiniteSets, Bags, TLC

\* ------------------------------------------------------------------ bounds

\* Number of synchronization runs of one behaviour.
MaxRuns == 2

\* Number of failures (of a backend call, a listing, the cache transaction) the
\* environment injects in one behaviour.
MaxFaults == 1

\* Capacity of the event channel between the emitters and the handler.
ChannelCapacity == 1

\* Number of contexts of the pool (configurable, 8 by default).
PoolSize == 2

\* Number of email hunk tasks submitted to the pool in the pool's own
\* specification.
MaxHunks == 2

\* Number of envelopes of the folder whose envelopes are listed.
MaxEnvelopes == 3

\* Largest page_size and largest page asked of list_envelopes.
MaxPageSize == 3
MaxPage == 3

\* Number of headers of the message interpreted, of names given to a header
\* filter, and of characters of the interpreted body.
MaxHeaders == 2
MaxKeys == 3
MaxBody == 2

\* Number of pairs in the query of the redirect request.
MaxParams == 2

\* Number of set_<feature> calls made on one BackendBuilder.
MaxSets == 1

\* Number of internal ids handed to one call of the Maildir backend.
MaxIds == 2

\* buffer_unordered(16): folder hunk tasks in flight at once.
BufferSize == 16

\* Folder names of the model (the names of scenarios 1 and 2).
FolderNames == {"Work", "Old"}

\* ------------------------------------------------------------- data model

Left == "Left"
Right == "Right"
SyncDestination == {Left, Right}

Other(side) == IF side = Left THEN Right ELSE Left

\* FolderSyncHunk
FolderSyncHunk(kind, folder, side) == [kind |-> kind, folder |-> folder, side |-> side]
Cache(folder, side) == FolderSyncHunk("Cache", folder, side)
Create(folder, side) == FolderSyncHunk("Create", folder, side)
Uncache(folder, side) == FolderSyncHunk("Uncache", folder, side)
Delete(folder, side) == FolderSyncHunk("Delete", folder, side)

\* FolderSyncCacheHunk
FolderSyncCacheHunk(kind, folder, side) == [kind |-> kind, folder |-> folder, side |-> side]

\* FolderSyncStrategy
StrategyAll == [kind |-> "All", set |-> {}]
StrategyInclude(folders) == [kind |-> "Include", set |-> folders]
StrategyExclude(folders) == [kind |-> "Exclude", set |-> folders]
Strategies == {StrategyAll, StrategyInclude({"Work"}), StrategyExclude({"Work"})}

\* Message-Ids and flags of the model.
Mids == {"m1"}
Flag == {"Seen", "Deleted"}

\* The four stores of a run: the two backends and the two caches.
Stores == {"left_cache", "left", "right_cache", "right"}
Backend(side) == IF side = Left THEN "left" ELSE "right"
CacheOf(side) == IF side = Left THEN "left_cache" ELSE "right_cache"

\* What a store holds for one Message-Id of one folder.
NoEnvelope == [has |-> FALSE, flags |-> {}]
Envelope(flags) == [has |-> TRUE, flags |-> flags]
EnvelopeValues == {NoEnvelope} \cup {Envelope(fl) : fl \in SUBSET Flag}
NoEnvelopes == [st \in Stores |-> [f \in FolderNames |-> [m \in Mids |-> NoEnvelope]]]

\* EmailSyncHunk. The internal id of an envelope is the Message-Id it is stored
\* under; `flags` are the flags of the envelope the hunk carries.
EmailSyncHunk(kind, folder, mid, side, source, flags, refresh) ==
    [kind |-> kind, folder |-> folder, mid |-> mid, side |-> side,
     source |-> source, flags |-> flags, refresh |-> refresh]
GetThenCache(folder, mid, side) ==
    EmailSyncHunk("GetThenCache", folder, mid, side, side, {}, FALSE)
CopyThenCache(folder, mid, flags, source, target, refresh) ==
    EmailSyncHunk("CopyThenCache", folder, mid, target, source, flags, refresh)
UpdateFlags(folder, mid, flags, side) ==
    EmailSyncHunk("UpdateFlags", folder, mid, side, side, flags, FALSE)
UpdateCachedFlags(folder, mid, flags, side) ==
    EmailSyncHunk("UpdateCachedFlags", folder, mid, side, side, flags, FALSE)
EmailDelete(folder, mid, side) ==
    EmailSyncHunk("Delete", folder, mid, side, side, {}, FALSE)
EmailUncache(folder, mid, side) ==
    EmailSyncHunk("Uncache", folder, mid, side, side, {}, FALSE)

\* Permission mask: per side, whether messages may be created, deleted, and
\* flags updated on the backend of that side.
Permission(create, delete, flags) == [create |-> create, delete |-> delete, flags |-> flags]
AllowAll == [s \in SyncDestination |-> Permission(TRUE, TRUE, TRUE)]
LeftReadOnly == [AllowAll EXCEPT ![Left] = Permission(FALSE, FALSE, FALSE)]
RightNoDelete == [AllowAll EXCEPT ![Right] = Permission(TRUE, FALSE, TRUE)]
PermissionChoices == {AllowAll, LeftReadOnly, RightNoDelete}

\* ------------------------------------------------------------- variables

VARIABLES
    dry_run,              \* FolderSyncPatchManager.dry_run / ctx.dry_run
    strategy,             \* FolderSyncPatchManager.strategy
    local_folders,        \* folders of the left (local) backend
    local_folders_cached, \* folders of the left cache
    remote_folders,       \* folders of the right (remote) backend
    remote_folders_cached,\* folders of the right cache
    pc,                   \* position of the run
    run,                  \* index of the current run
    patches,              \* FolderSyncPatches of the current run
    queue,                \* the stream of hunks of apply_patches
    spawned,              \* number of hunks of the stream already spawned
    running,              \* indices of the spawned tasks not yet finished
    report,               \* FolderSyncReport
    start,                \* the folder sets and envelopes when the run started
    envelopes,            \* envelopes of the four stores, by folder and Message-Id
    permissions,          \* ctx permissions
    envelope_filters,     \* ctx.envelope_filters: the Message-Ids whose envelopes match
    email_todo,           \* folders whose envelopes are still to be listed
    list_failed,          \* per folder, the stores whose listing failed
    email_patch,          \* folder -> set of EmailSyncHunk
    tasks,                \* the spawned email hunk tasks still to finish
    email_report,         \* EmailSyncReport.patch
    outcome,              \* how the previous runs ended
    faults,               \* number of failures injected so far
    handler,              \* whether an event handler is installed
    events,               \* the events emitted in the current run
    pending,              \* events emitted and not yet taken by the handler
    pool,                 \* the closures given to pool.exec, and the context each holds
    mdir,                 \* the entries of cur/ of one Maildir folder, by internal id
    emails,               \* the last call of the Maildir backend and what it returned
    builder,              \* the BackendBuilder being configured
    backend,              \* the Backend built from it
    invocation,           \* the last operation invoked on the Backend and its result
    cur,                  \* the envelopes of one folder, in the order the backend lists them
    listing,              \* the last list_envelopes call and its result
    dirs,                 \* the entries of the folders of one Maildir account, by folder and internal id
    purged,               \* the last purge_folder call and its result
    smtp,                 \* the SMTP configuration, the client builder and the client of one context
    smtp_call,            \* the last build or send of the context, what the server answered and the result
    SERVICE_NAME,         \* the global cell holding the keyring service name
    keyring,              \* the secrets of the native keyring, by service name and key
    native_entry,         \* the last native entry created by an Entry, the operation made on it and its result
    requested,            \* the name given to the last set_global_service_name, if any
    show_headers,         \* the header filter of one MimeInterpreterBuilder and the list it was built from
    message,              \* the MIME message to interpret: its headers in source order and its interpreted body
    mml,                  \* the MML string from_msg returned, if any
    hunk_stores,          \* what the two backends and the two caches hold for the message of one email hunk
    hunk_task,            \* the task of that hunk: the hunk, the calls made, the envelope read, how it ended, the stores before
    grant,                \* the AuthorizationCodeGrant: whether PKCE is configured
    redirection           \* the call of wait_for_redirection: its inputs, what it wrote and requested, its result

folderVars == <<dry_run, handler, strategy, local_folders, local_folders_cached,
                remote_folders, remote_folders_cached, patches, queue,
                spawned, running, report, start>>

emailVars == <<envelopes, permissions, envelope_filters, email_todo, list_failed, email_patch,
               tasks, email_report>>

eventVars == <<events, pending>>

\* The components specified on their own.
poolVars == <<pool>>
maildirVars == <<mdir, emails>>
backendVars == <<builder, backend, invocation>>
listingVars == <<cur, listing>>
purgeVars == <<dirs, purged>>
smtpVars == <<smtp, smtp_call>>
keyringVars == <<SERVICE_NAME, keyring, native_entry, requested>>
mmlVars == <<show_headers, message, mml>>
hunkVars == <<hunk_stores, hunk_task>>
oauthVars == <<grant, redirection>>
componentVars == <<poolVars, maildirVars, backendVars, listingVars, purgeVars, smtpVars, keyringVars, mmlVars, hunkVars, oauthVars>>

\* The state of the synchronization.
syncVars == <<folderVars, emailVars, pc, run, outcome, faults, eventVars>>

\* What a step of one component leaves alone.
outsidePool == <<syncVars, maildirVars, backendVars, listingVars, purgeVars, smtpVars, keyringVars, mmlVars, hunkVars, oauthVars>>
outsideMaildir == <<syncVars, poolVars, backendVars, listingVars, purgeVars, smtpVars, keyringVars, mmlVars, hunkVars, oauthVars>>
outsideBackend == <<syncVars, poolVars, maildirVars, listingVars, purgeVars, smtpVars, keyringVars, mmlVars, hunkVars, oauthVars>>
outsideListing == <<syncVars, poolVars, maildirVars, backendVars, purgeVars, smtpVars, keyringVars, mmlVars, hunkVars, oauthVars>>
outsidePurge == <<syncVars, poolVars, maildirVars, backendVars, listingVars, smtpVars, keyringVars, mmlVars, hunkVars, oauthVars>>
outsideSmtp == <<syncVars, poolVars, maildirVars, backendVars, listingVars, purgeVars, keyringVars, mmlVars, hunkVars, oauthVars>>
outsideKeyring == <<syncVars, poolVars, maildirVars, backendVars, listingVars, purgeVars, smtpVars, mmlVars, hunkVars, oauthVars>>
outsideMml == <<syncVars, poolVars, maildirVars, backendVars, listingVars, purgeVars, smtpVars, keyringVars, hunkVars, oauthVars>>
outsideHunk == <<syncVars, poolVars, maildirVars, backendVars, listingVars, purgeVars, smtpVars, keyringVars, mmlVars, oauthVars>>
outsideOauth == <<syncVars, poolVars, maildirVars, backendVars, listingVars, purgeVars, smtpVars, keyringVars, mmlVars, hunkVars>>

vars == <<syncVars, componentVars>>

\* The environment lets a call succeed, or makes it fail while it may.
Outcomes == IF faults < MaxFaults THEN {TRUE, FALSE} ELSE {TRUE}
Injected(ok) == faults' = IF ok THEN faults ELSE faults + 1

\* ---------------------------------------------------------------- events

\* AccountSyncProgressEvent::ApplyFolderHunk and the SyncEvent values.
Event(kind, folder, hunk, count) == [kind |-> kind, folder |-> folder, hunk |-> hunk, count |-> count]
NoHunk == [kind |-> "None"]
ApplyFolderHunk(hunk) == Event("ApplyFolderHunk", hunk.folder, hunk, 0)
ListedEnvelopes(store, folder, count) ==
    Event(CASE store = "left_cache" -> "ListedLeftCachedEnvelopes"
            [] store = "left" -> "ListedLeftEnvelopes"
            [] store = "right_cache" -> "ListedRightCachedEnvelopes"
            [] store = "right" -> "ListedRightEnvelopes",
          folder, NoHunk, count)
GeneratedEmailPatch == Event("GeneratedEmailPatch", "", NoHunk, 0)
ProcessedEmailHunk(hunk) == Event("ProcessedEmailHunk", hunk.folder, hunk, 0)
ProcessedAllEmailHunks == Event("ProcessedAllEmailHunks", "", NoHunk, 0)

\* A channel that refuses an event when it is full: nothing more is emitted
\* until the handler has taken one.
channel_after_blocking(n, k) == IF n + k <= ChannelCapacity THEN n + k ELSE -1

\* The number of events the channel holds after k events are emitted while it
\* holds n: a bounded channel that drops the oldest event on overflow.
channel_after(n, k) == IF n + k <= ChannelCapacity THEN n + k ELSE ChannelCapacity

\* event.emit(&handler): the events of the bag are emitted; the emitter does
\* not wait for the handler.
Emit(bag) ==
    /\ handler => channel_after(pending, BagCardinality(bag)) >= 0
    /\ events' = events (+) bag
    /\ pending' = IF handler THEN channel_after(pending, BagCardinality(bag)) ELSE pending

\* ------------------------------------------------------- folder/sync/patch

\* The filter_map of build_patches on the listed folders.
StrategyFilter(s, folders) ==
    CASE s.kind = "All" -> folders
      [] s.kind = "Include" -> folders \cap s.set
      [] s.kind = "Exclude" -> folders \ s.set

\* FolderSyncCache::list_local_folders / list_remote_folders(conn, account, strategy)
list_cached_folders(cached, s) == StrategyFilter(s, cached)

\* The match of build_patch on (local_cache, local, remote_cache, remote).
build_patch_row(folder, lc, l, rc, r) ==
    CASE ~lc /\ ~l /\ ~rc /\ ~r -> << >>
      [] ~lc /\ ~l /\ ~rc /\ r ->
            << Cache(folder, Left), Create(folder, Left), Cache(folder, Right) >>
      [] ~lc /\ ~l /\ rc /\ ~r -> << Uncache(folder, Right) >>
      [] ~lc /\ ~l /\ rc /\ r -> << Cache(folder, Left), Create(folder, Left) >>
      [] ~lc /\ l /\ ~rc /\ ~r ->
            << Cache(folder, Left), Cache(folder, Right), Create(folder, Right) >>
      [] ~lc /\ l /\ ~rc /\ r -> << Cache(folder, Left), Cache(folder, Right) >>
      [] ~lc /\ l /\ rc /\ ~r -> << Cache(folder, Left), Create(folder, Right) >>
      [] ~lc /\ l /\ rc /\ r -> << Cache(folder, Left) >>
      [] lc /\ ~l /\ ~rc /\ ~r -> << Uncache(folder, Left) >>
      [] lc /\ ~l /\ ~rc /\ r -> << Create(folder, Left), Cache(folder, Right) >>
      [] lc /\ ~l /\ rc /\ ~r -> << Uncache(folder, Left), Uncache(folder, Right) >>
      [] lc /\ ~l /\ rc /\ r ->
            << Uncache(folder, Left), Uncache(folder, Right), Delete(folder, Right) >>
      [] lc /\ l /\ ~rc /\ ~r -> << Cache(folder, Right), Create(folder, Right) >>
      [] lc /\ l /\ ~rc /\ r -> << Cache(folder, Right) >>
      [] lc /\ l /\ rc /\ ~r ->
            << Uncache(folder, Left), Delete(folder, Left), Uncache(folder, Right) >>
      [] lc /\ l /\ rc /\ r -> << >>

\* A build_patch that forgets to gather the folders of `remote`.
build_patch_without_remote(local_cache, local, remote_cache, remote) ==
    LET folders == local_cache \cup local \cup remote_cache
    IN [folder \in folders |->
            build_patch_row(folder, folder \in local_cache, folder \in local,
                            folder \in remote_cache, folder \in remote)]

\* A build_patch that takes the remote cache for empty.
build_patch_ignoring_remote_cache(local_cache, local, remote_cache, remote) ==
    LET folders == local_cache \cup local \cup remote_cache \cup remote
    IN [folder \in folders |->
            build_patch_row(folder, folder \in local_cache, folder \in local,
                            FALSE, folder \in remote)]

\* A build_patch that leaves out the folders that need no hunk.
build_patch_skipping_synchronized(local_cache, local, remote_cache, remote) ==
    LET folders == (local_cache \cup local \cup remote_cache \cup remote)
                   \ (local_cache \cap local \cap remote_cache \cap remote)
    IN [folder \in folders |->
            build_patch_row(folder, folder \in local_cache, folder \in local,
                            folder \in remote_cache, folder \in remote)]

\* A build_patch that takes each backend for the other.
build_patch_swapping_backends(local_cache, local, remote_cache, remote) ==
    LET folders == local_cache \cup local \cup remote_cache \cup remote
    IN [folder \in folders |->
            build_patch_row(folder, folder \in local_cache, folder \in remote,
                            folder \in remote_cache, folder \in local)]

\* A build_patch that caches again on Left every folder it creates on Right.
build_patch_recaching(local_cache, local, remote_cache, remote) ==
    LET folders == local_cache \cup local \cup remote_cache \cup remote
        row(folder) == build_patch_row(folder, folder \in local_cache, folder \in local,
                                       folder \in remote_cache, folder \in remote)
    IN [folder \in folders |->
            IF \E i \in 1 .. Len(row(folder)) : row(folder)[i] = Uncache(folder, Left)
            THEN row(folder) \o << Cache(folder, Left) >>
            ELSE row(folder)]

\* A build_patch that takes every folder of the local backend for cached.
build_patch_trusting_local_backend(local_cache, local, remote_cache, remote) ==
    LET folders == local_cache \cup local \cup remote_cache \cup remote
    IN [folder \in folders |->
            build_patch_row(folder, folder \in local_cache \cup local, folder \in local,
                            folder \in remote_cache, folder \in remote)]

\* build_patch(local_cache, local, remote_cache, remote)
build_patch(local_cache, local, remote_cache, remote) ==
    LET folders == local_cache \cup local \cup remote_cache \cup remote
    IN [folder \in folders |->
            build_patch_row(folder, folder \in local_cache, folder \in local,
                            folder \in remote_cache, folder \in remote)]

\* The four inputs build_patches hands to build_patch.
PatchInputs ==
    [local_cache |-> list_cached_folders(local_folders_cached, strategy),
     local |-> StrategyFilter(strategy, local_folders),
     remote_cache |-> list_cached_folders(remote_folders_cached, strategy),
     remote |-> StrategyFilter(strategy, remote_folders)]

\* All the orders in which a set can be iterated (HashMap iteration order).
Orders(S) ==
    {o \in [1..Cardinality(S) -> S] : \A i, j \in 1..Cardinality(S) : i # j => o[i] # o[j]}

RECURSIVE Flatten(_, _)
\* patches.into_iter().flat_map(|(_folder, patch)| patch), folders taken in `order`.
Flatten(p, order) ==
    IF order = << >> THEN << >>
    ELSE p[Head(order)] \o Flatten(p, Tail(order))

\* FolderSyncReport::default(). report.patch is a Vec filled in the order in which
\* the tasks complete; the model keeps it as a bag of entries.
EmptyReport == [patch |-> EmptyBag, cache_patch |-> << >>, cache_err |-> FALSE, names |-> {}]

\* A report entry that loses the error of the hunk.
Entry_without_error(hunk, err) == [hunk |-> hunk, err |-> FALSE]

\* One entry of FolderSyncReport.patch: (hunk, None) or (hunk, Some(err)).
Entry(hunk, err) == [hunk |-> hunk, err |-> err]

RECURSIVE AllSucceeded(_)
\* .map(|patch| (patch.clone(), None)).collect() of the dry-run branch.
AllSucceeded(hunks) ==
    IF hunks = << >> THEN EmptyBag
    ELSE SetToBag({Entry(Head(hunks), FALSE)}) (+) AllSucceeded(Tail(hunks))

\* The cache hunks process_hunk returns for a hunk.
cache_hunks(hunk) ==
    CASE hunk.kind = "Cache" -> << FolderSyncCacheHunk("Insert", hunk.folder, hunk.side) >>
      [] hunk.kind = "Uncache" -> << FolderSyncCacheHunk("Delete", hunk.folder, hunk.side) >>
      [] OTHER -> << >>

\* Backend calls in which delete_folder is never made.
backend_after_without_delete(hunk, side, folders) ==
    IF hunk.side # side THEN folders
    ELSE IF hunk.kind = "Create" THEN folders \cup {hunk.folder} ELSE folders

\* The backend calls of process_hunk: add_folder / delete_folder on one side.
backend_after(hunk, side, folders) ==
    IF hunk.side # side THEN folders
    ELSE CASE hunk.kind = "Create" -> folders \cup {hunk.folder}
           [] hunk.kind = "Delete" -> folders \ {hunk.folder}
           [] OTHER -> folders

\* A hunk whose processing calls a backend, and so can fail.
IsBackendHunk(hunk) == hunk.kind \in {"Create", "Delete"}

\* A transaction that is given no cache hunk when a hunk of the run failed.
cache_patch_rolled_back(r) ==
    IF \E e \in BagToSet(r.patch) : e.err THEN << >> ELSE r.cache_patch

\* A connection without transaction: the rows written before the failure stay.
transaction_keeping_rows(before, within) == within

\* let tx = conn.transaction()?; .. `?`: a transaction dropped before
\* tx.commit() is rolled back, the cache is what it was before.
transaction_dropped(before, within) == before

\* for hunk in &report.cache_patch.0: the cache hunks the transaction applies.
cache_patch_to_process(r) == r.cache_patch

RECURSIVE cache_after(_, _, _)
\* The loop of process_cache_patch over report.cache_patch.0, for one side.
cache_after(hunks, side, folders) ==
    IF hunks = << >> THEN folders
    ELSE LET h == Head(hunks)
             next == IF h.side # side THEN folders
                     ELSE IF h.kind = "Insert" THEN folders \cup {h.folder}
                     ELSE folders \ {h.folder}
         IN cache_after(Tail(hunks), side, next)

\* ---------------------------------------------------------- email/sync

\* Merge policy of row 1111: the union of the flags of the four envelopes, with
\* Deleted removed unless a backend (non-cache) envelope has it.
merged_flags(lc, l, rc, r) ==
    LET all == lc.flags \cup l.flags \cup rc.flags \cup r.flags
    IN IF "Deleted" \in (l.flags \cup r.flags) THEN all ELSE all \ {"Deleted"}

\* Row 1111 of the envelope table: flag hunks where the merged flags differ.
flag_hunks(folder, mid, lc, l, rc, r) ==
    LET m == merged_flags(lc, l, rc, r)
    IN  (IF lc.flags # m THEN {UpdateCachedFlags(folder, mid, m, Left)} ELSE {})
        \cup (IF l.flags # m THEN {UpdateFlags(folder, mid, m, Left)} ELSE {})
        \cup (IF rc.flags # m THEN {UpdateCachedFlags(folder, mid, m, Right)} ELSE {})
        \cup (IF r.flags # m THEN {UpdateFlags(folder, mid, m, Right)} ELSE {})

\* The envelope table of patch::build for one Message-Id: the rows of the
\* envelope diff engine, keyed by the presence of the message in
\* (left cache, left, right cache, right).
email_patch_row(folder, mid, lc, l, rc, r) ==
    CASE ~lc.has /\ ~l.has /\ ~rc.has /\ ~r.has -> {}
      [] ~lc.has /\ ~l.has /\ ~rc.has /\ r.has ->
            {GetThenCache(folder, mid, Right),
             CopyThenCache(folder, mid, r.flags, Right, Left, FALSE)}
      [] ~lc.has /\ ~l.has /\ rc.has /\ ~r.has -> {EmailUncache(folder, mid, Right)}
      [] ~lc.has /\ ~l.has /\ rc.has /\ r.has ->
            {CopyThenCache(folder, mid, r.flags, Right, Left, FALSE)}
      [] ~lc.has /\ l.has /\ ~rc.has /\ ~r.has ->
            {GetThenCache(folder, mid, Left),
             CopyThenCache(folder, mid, l.flags, Left, Right, FALSE)}
      [] ~lc.has /\ l.has /\ ~rc.has /\ r.has ->
            {GetThenCache(folder, mid, Left), GetThenCache(folder, mid, Right)}
      [] ~lc.has /\ l.has /\ rc.has /\ ~r.has ->
            {EmailUncache(folder, mid, Left),
             CopyThenCache(folder, mid, l.flags, Left, Right, FALSE)}
      [] ~lc.has /\ l.has /\ rc.has /\ r.has -> {GetThenCache(folder, mid, Left)}
      [] lc.has /\ ~l.has /\ ~rc.has /\ ~r.has -> {EmailUncache(folder, mid, Left)}
      [] lc.has /\ ~l.has /\ ~rc.has /\ r.has ->
            {EmailUncache(folder, mid, Left), EmailDelete(folder, mid, Right),
             EmailUncache(folder, mid, Right)}
      [] lc.has /\ ~l.has /\ rc.has /\ ~r.has ->
            {EmailUncache(folder, mid, Left), EmailUncache(folder, mid, Right)}
      [] lc.has /\ ~l.has /\ rc.has /\ r.has ->
            {EmailUncache(folder, mid, Left), EmailUncache(folder, mid, Right),
             EmailDelete(folder, mid, Right)}
      [] lc.has /\ l.has /\ ~rc.has /\ ~r.has ->
            {CopyThenCache(folder, mid, l.flags, Left, Right, FALSE)}
      [] lc.has /\ l.has /\ ~rc.has /\ r.has -> {GetThenCache(folder, mid, Right)}
      [] lc.has /\ l.has /\ rc.has /\ ~r.has ->
            {EmailUncache(folder, mid, Left), EmailDelete(folder, mid, Left),
             EmailUncache(folder, mid, Right)}
      [] lc.has /\ l.has /\ rc.has /\ r.has -> flag_hunks(folder, mid, lc, l, rc, r)

\* patch::build(&folder, lc, l, rc, r), flattened: p.into_iter().flatten().
patch_build(folder, lc, l, rc, r) ==
    UNION {email_patch_row(folder, mid, lc[mid], l[mid], rc[mid], r[mid]) : mid \in Mids}

\* ctx.apply_flag_and_message_permissions(&mut patch): hunks the permission
\* mask forbids are dropped.
apply_flag_and_message_permissions(perm, patch) ==
    {h \in patch :
        /\ (h.kind = "CopyThenCache") => perm[h.side].create
        /\ (h.kind = "Delete") => perm[h.side].delete
        /\ (h.kind = "UpdateFlags") => perm[h.side].flags}

\* ctx.envelope_filters.matches(&e): the predicate is on the envelope of a
\* message, the same in whichever store the envelope is listed.
matches(filters, mid) == mid \in filters

\* A listing that keeps every envelope, matching or not.
listed_envelopes_unfiltered(envs, store, folder, failed, filters) ==
    IF store \in failed THEN [m \in Mids |-> NoEnvelope] ELSE envs[store][folder]

\* The map a listing task of sync returns for one store: with dry_run a failed
\* listing is replaced by the empty map (or_else ... Ok(Default::default())), and
\* only the envelopes the filters match are kept (filter_map).
listed_envelopes(envs, store, folder, failed, filters) ==
    IF store \in failed THEN [m \in Mids |-> NoEnvelope]
    ELSE [m \in Mids |-> IF matches(filters, m) THEN envs[store][folder][m] ELSE NoEnvelope]

\* The Listed events of the four listing tasks of one folder: a task whose
\* listing returned an error emits none.
listed_events(envs, folder, failed, filters, dry) ==
    SetToBag({ListedEnvelopes(st, folder,
                Cardinality({m \in Mids :
                    listed_envelopes(envs, st, folder, failed, filters)[m].has})) :
              st \in {x \in Stores : dry \/ x \notin failed}})

\* The outcomes of the four listings of one folder: all succeed, or one fails.
ListingFailures == {{}} \cup {{st} : st \in Stores}

\* A listing whose error is always replaced by the empty map.
listing_error_replaced(dry, failed) == FALSE

\* A listing error is returned, and the folder gets no patch, unless dry_run.
listing_result_is_err(dry, failed) == failed # {} /\ ~dry

\* The email patch of one folder, as the fold of sync inserts it.
folder_email_patch(envs, perm, folder, failed, filters) ==
    apply_flag_and_message_permissions(perm,
        patch_build(folder,
                    listed_envelopes(envs, "left_cache", folder, failed, filters),
                    listed_envelopes(envs, "left", folder, failed, filters),
                    listed_envelopes(envs, "right_cache", folder, failed, filters),
                    listed_envelopes(envs, "right", folder, failed, filters)))

\* Calls in which the target cache is written before the envelope is fetched
\* from the target.
hunk_ops_caching_before_fetch(h) ==
    CASE h.kind = "GetThenCache" -> << "get_envelope", "cache_add" >>
      [] h.kind = "CopyThenCache" ->
            (IF h.refresh THEN << "refresh_source_cache" >> ELSE << >>)
            \o << "peek_messages", "add_message", "cache_add", "get_envelope" >>
      [] h.kind = "Uncache" -> << "cache_add_flag" >>
      [] h.kind = "Delete" -> << "add_flag" >>
      [] h.kind = "UpdateCachedFlags" -> << "cache_set_flags" >>
      [] h.kind = "UpdateFlags" -> << "set_flags" >>

\* Calls in which the source cache is refreshed after the message is copied.
hunk_ops_refreshing_last(h) ==
    CASE h.kind = "GetThenCache" -> << "get_envelope", "cache_add" >>
      [] h.kind = "CopyThenCache" ->
            << "peek_messages", "add_message", "get_envelope", "cache_add" >>
            \o (IF h.refresh THEN << "refresh_source_cache" >> ELSE << >>)
      [] h.kind = "Uncache" -> << "cache_add_flag" >>
      [] h.kind = "Delete" -> << "add_flag" >>
      [] h.kind = "UpdateCachedFlags" -> << "cache_set_flags" >>
      [] h.kind = "UpdateFlags" -> << "set_flags" >>

\* The awaited backend calls of the task of one hunk, in order.
hunk_ops(h) ==
    CASE h.kind = "GetThenCache" -> << "get_envelope", "cache_add" >>
      [] h.kind = "CopyThenCache" ->
            (IF h.refresh THEN << "refresh_source_cache" >> ELSE << >>)
            \o << "peek_messages", "add_message", "get_envelope", "cache_add" >>
      [] h.kind = "Uncache" -> << "cache_add_flag" >>
      [] h.kind = "Delete" -> << "add_flag" >>
      [] h.kind = "UpdateCachedFlags" -> << "cache_set_flags" >>
      [] h.kind = "UpdateFlags" -> << "set_flags" >>

\* Stores in which the Delete hunk flags the message of the cache, as Uncache.
op_store_deleting_in_cache(h, op) ==
    CASE op = "refresh_source_cache" -> CacheOf(h.source)
      [] op = "peek_messages" -> Backend(h.source)
      [] op \in {"add_message", "get_envelope", "set_flags"} -> Backend(h.side)
      [] op \in {"cache_add", "cache_add_flag", "cache_set_flags", "add_flag"} ->
            CacheOf(h.side)

\* The store a call of the task of hunk h reads or writes.
op_store(h, op) ==
    CASE op = "refresh_source_cache" -> CacheOf(h.source)
      [] op = "peek_messages" -> Backend(h.source)
      [] op \in {"add_message", "get_envelope", "add_flag", "set_flags"} -> Backend(h.side)
      [] op \in {"cache_add", "cache_add_flag", "cache_set_flags"} -> CacheOf(h.side)

\* A call that fails when the store does not hold the message.
op_needs_message(op) == op \in {"peek_messages", "get_envelope"}

\* add_flag(folder, id, Flag::Deleted) of the Uncache and Delete hunks.
add_deleted_flag(env) == IF env.has THEN Envelope(env.flags \cup {"Deleted"}) ELSE env

\* A set_flags that adds the flags to those of the envelope.
set_envelope_flags_adding(env, flags) ==
    IF env.has THEN Envelope(env.flags \cup flags) ELSE env

\* set_flags(folder, id, &envelope.flags) of the UpdateFlags hunks.
set_envelope_flags(env, flags) == IF env.has THEN Envelope(flags) ELSE env

\* What the store of a successful call holds for the message afterwards; `got`
\* is the envelope the task read with get_envelope.
op_effect(h, op, got, env) ==
    CASE op = "refresh_source_cache" -> Envelope(h.flags)
      [] op = "add_message" -> Envelope(h.flags)
      [] op = "cache_add" -> Envelope(got)
      [] op \in {"add_flag", "cache_add_flag"} -> add_deleted_flag(env)
      [] op \in {"set_flags", "cache_set_flags"} -> set_envelope_flags(env, h.flags)
      [] OTHER -> env

\* A task that runs its hunk in a dry run too.
task_never_skips(dry) == FALSE

\* if ctx.dry_run { return Ok(()) }: the task of a hunk does nothing in a dry run.
task_skips(dry) == dry

\* A task just spawned: no call made, no envelope read.
NewTask == [step |-> 0, got |-> {}]

Snapshot ==
    [local_cache |-> local_folders_cached, local |-> local_folders,
     remote_cache |-> remote_folders_cached, remote |-> remote_folders,
     envelopes |-> envelopes]

\* ------------------------------------------------------------------ pool

\* The contexts of the pool.
Contexts == 1 .. PoolSize

\* A closure given to pool.exec by sync.
Closure(kind, folder, store, nth) ==
    [kind |-> kind, folder |-> folder, store |-> store, nth |-> nth]

\* The closures of one sync: the four listings of every folder, the
\* permission filter of every folder's patch, the emission of
\* GeneratedEmailPatch, the hunk tasks, the emission of ProcessedAllEmailHunks.
ListingClosures == {Closure("list_envelopes", f, st, 0) : f \in FolderNames, st \in Stores}
PermissionClosures == {Closure("apply_permissions", f, "", 0) : f \in FolderNames}
GeneratedClosure == Closure("generated_email_patch", "", "", 0)
HunkClosures == {Closure("hunk", "", "", n) : n \in 1 .. MaxHunks}
ProcessedAllClosure == Closure("processed_all_email_hunks", "", "", 0)
PoolClosures ==
    ListingClosures \cup PermissionClosures \cup {GeneratedClosure}
    \cup HunkClosures \cup {ProcessedAllClosure}

\* Where a closure is: not given to the pool yet, waiting for a context,
\* running with context ctx, returned.
NotSubmitted == [state |-> "new", ctx |-> 0]
Waiting == [state |-> "waiting", ctx |-> 0]
RunningWith(ctx) == [state |-> "running", ctx |-> ctx]
Returned == [state |-> "returned", ctx |-> 0]

\* No closure given to the pool.
PoolIdle == [c \in PoolClosures |-> NotSubmitted]

AllReturned(p, closures) == \A c \in closures : p[c] = Returned

\* sync calls pool.exec with closure c: the listings at once, the permission
\* filter of a folder when its four listings are joined and no other filter
\* is awaited by the fold, GeneratedEmailPatch after the fold, the hunk tasks
\* after it, ProcessedAllEmailHunks when the hunk tasks are collected.
may_exec(p, c) ==
    CASE c.kind = "list_envelopes" -> TRUE
      [] c.kind = "apply_permissions" ->
            /\ AllReturned(p, {l \in ListingClosures : l.folder = c.folder})
            /\ \A o \in PermissionClosures : p[o].state \in {"new", "returned"}
      [] c.kind = "generated_email_patch" -> AllReturned(p, PermissionClosures)
      [] c.kind = "hunk" -> p[GeneratedClosure] = Returned
      [] c.kind = "processed_all_email_hunks" -> AllReturned(p, HunkClosures)

\* A pool that hands out a context whoever holds it.
context_free_unchecked(p, ctx) == TRUE

\* No closure is running with context ctx.
context_free(p, ctx) == \A c \in PoolClosures : p[c].ctx # ctx

\* --------------------------------------------------------------- maildir

\* The internal ids of the entries of one Maildir folder.
InternalIds == {"id1", "id2"}

\* internal_ids: Vec<&str>, of any length up to MaxIds, repetitions included.
Requests == UNION {[1 .. n -> InternalIds] : n \in 0 .. MaxIds}

\* A maildirpp::MailEntry as read from cur/: its id and its flags.
MailEntry(id, flags) == [id |-> id, flags |-> flags]

\* What a call returns: Ok(emails) or Err, and the folder it leaves.
Returns(ok, messages, m) == [ok |-> ok, emails |-> messages, mdir |-> m]

\* internal_ids.iter().position(|id| *id == entry.id())
position(ids, id) ==
    CHOOSE i \in 1 .. Len(ids) : ids[i] = id /\ \A j \in 1 .. (i - 1) : ids[j] # id

\* emails.sort_by_key(|(pos, _)| *pos), then the entries alone.
RECURSIVE sort_by_key(_)
sort_by_key(found) ==
    IF found = {} THEN << >>
    ELSE LET first == CHOOSE x \in found : \A y \in found : x[1] <= y[1]
         IN << first[2] >> \o sort_by_key(found \ {first})

\* A preview_emails that marks what it returns as seen.
preview_emails_marking_seen(m, internal_ids) ==
    LET listed == {id \in InternalIds : m[id].has}
        found == {<<position(internal_ids, id), MailEntry(id, m[id].flags)>> :
                    id \in {x \in listed : \E i \in 1 .. Len(internal_ids) : internal_ids[i] = x}}
    IN Returns(TRUE, sort_by_key(found),
               [id \in InternalIds |->
                    IF \E x \in found : x[2].id = id
                    THEN Envelope(m[id].flags \cup {"Seen"}) ELSE m[id]])

\* MaildirBackend::preview_emails(folder, internal_ids): the entries of cur/
\* whose id is requested, in the order of the request.
preview_emails(m, internal_ids) ==
    LET listed == {id \in InternalIds : m[id].has}
        found == {<<position(internal_ids, id), MailEntry(id, m[id].flags)>> :
                    id \in {x \in listed : \E i \in 1 .. Len(internal_ids) : internal_ids[i] = x}}
    IN Returns(TRUE, sort_by_key(found), m)

\* MaildirBackend::add_flags(folder, internal_ids, flags): try_for_each over
\* the ids, stopping at the first id the folder does not hold.
RECURSIVE add_flags(_, _, _)
add_flags(m, internal_ids, flags) ==
    IF internal_ids = << >> THEN Returns(TRUE, << >>, m)
    ELSE LET id == Head(internal_ids)
         IN IF ~m[id].has THEN Returns(FALSE, << >>, m)
            ELSE add_flags([m EXCEPT ![id] = Envelope(@.flags \cup flags)],
                           Tail(internal_ids), flags)

\* MaildirBackend::get_emails(folder, internal_ids)
get_emails(m, internal_ids) ==
    LET previewed == preview_emails(m, internal_ids)
        flagged == add_flags(previewed.mdir, internal_ids, {"Seen"})
    IN IF ~previewed.ok THEN previewed
       ELSE IF ~flagged.ok THEN flagged
       ELSE Returns(TRUE, previewed.emails, flagged.mdir)

\* peek_messages(folder, Id::single(id)) of a Maildir backend.
peek_messages(m, id) == preview_emails(m, << id >>)

\* A call of the backend: what was asked, the folder before, what came back.
Call(op, ids, before, returned) ==
    [op |-> op, ids |-> ids, before |-> before, ok |-> returned.ok,
     emails |-> returned.emails]

\* No call made yet.
NoCall == [op |-> "none", ids |-> << >>, before |-> [id \in InternalIds |-> NoEnvelope],
           ok |-> TRUE, emails |-> << >>]

\* A Maildir folder nothing is asked of.
MaildirIdle == mdir = [id \in InternalIds |-> NoEnvelope] /\ emails = NoCall

\* --------------------------------------------------------------- backend

\* The feature slots of Backend<C>.
Features ==
    {"add_folder", "list_folders", "expunge_folder", "purge_folder", "delete_folder",
     "get_envelope", "list_envelopes", "watch_envelopes",
     "add_flags", "set_flags", "remove_flags",
     "add_message", "send_message", "peek_messages", "get_messages",
     "copy_messages", "move_messages", "delete_messages", "remove_messages"}

\* The feature slots of BackendBuilder<CB>: those of the backend and check_up.
BuilderFeatures == Features \cup {"check_up"}

\* The operations Backend<C> implements, by the name of their method.
Operations == (Features \ {"add_message"}) \cup {"add_message_with_flags"}

\* self.<slot>: the slot the implementation of an operation reads.
slot_of(op) == IF op = "add_message_with_flags" THEN "add_message" ELSE op

\* An implementation that answers every unavailable feature with one error.
not_available_error_shared(op) == "ListFoldersNotAvailableError"

\* .ok_or(Error::<..>NotAvailableError) of the implementation of an operation.
not_available_error(op) ==
    CASE op = "add_folder" -> "AddFolderNotAvailableError"
      [] op = "list_folders" -> "ListFoldersNotAvailableError"
      [] op = "expunge_folder" -> "ExpungeFolderNotAvailableError"
      [] op = "purge_folder" -> "PurgeFolderNotAvailableError"
      [] op = "delete_folder" -> "DeleteFolderNotAvailableError"
      [] op = "get_envelope" -> "GetEnvelopeNotAvailableError"
      [] op = "list_envelopes" -> "ListEnvelopesNotAvailableError"
      [] op = "watch_envelopes" -> "WatchEnvelopesNotAvailableError"
      [] op = "add_flags" -> "AddFlagsNotAvailableError"
      [] op = "set_flags" -> "SetFlagsNotAvailableError"
      [] op = "remove_flags" -> "RemoveFlagsNotAvailableError"
      [] op = "add_message_with_flags" -> "AddMessageNotAvailableError"
      [] op = "send_message" -> "SendMessageNotAvailableError"
      [] op = "peek_messages" -> "PeekMessagesNotAvailableError"
      [] op = "get_messages" -> "GetMessagesNotAvailableError"
      [] op = "copy_messages" -> "CopyMessagesNotAvailableError"
      [] op = "move_messages" -> "MoveMessagesNotAvailableError"
      [] op = "delete_messages" -> "DeleteMessagesNotAvailableError"
      [] op = "remove_messages" -> "RemoveMessagesNotAvailableError"

\* Result<T>
Ok(value) == [ok |-> TRUE, value |-> value]
Err(error) == [ok |-> FALSE, value |-> error]

\* What a feature of the context may answer to a call.
FeatureResults == {Ok("done"), Err("backend error")}

\* The arguments of a call (folder, id, flags, message), taken as a whole.
Arguments == {"args1", "args2"}

\* A call made on the feature of the context.
FeatureCall(method, args) == [method |-> method, args |-> args]

\* The implementation of operation op of Backend<C>: slots tells the slots
\* that are Some, returns_some whether the feature function gives a feature
\* for the context, feature_result what that feature answers.
invoke(slots, op, args, returns_some, feature_result) ==
    IF slots[slot_of(op)] /\ returns_some
    THEN [delegated |-> << FeatureCall(op, args) >>, result |-> feature_result]
    ELSE [delegated |-> << >>, result |-> Err(not_available_error(op))]

\* BackendFeatureSource
Sources == {"None", "Context", "Backend"}

\* BackendBuilder::new: all features are taken from the context by default.
new_builder == [f \in BuilderFeatures |-> "Context"]

\* set_<feature>(f)
set_feature(src, feature, source) == [src EXCEPT ![feature] = source]

\* A without_features that sets every feature to BackendFeatureSource::None.
without_every_feature(src) == [f \in BuilderFeatures |-> "None"]

\* BackendBuilder::without_features
without_features(src) == set_feature(src, "list_folders", "None")

\* The features the context builder offers: all, none, or list_folders alone.
ContextFeatureChoices == {Features, {}, {"list_folders"}}

\* Option<BackendFeature>: None, the feature of the context builder, or the
\* feature f of BackendFeatureSource::Backend(f).
NoFeature == "None"
ContextFeature == "Some(feature of the context builder)"
OverrideFeature == "Some(f)"

\* self.ctx_builder.<feature>(): None for a feature the context builder does
\* not offer.
ctx_builder_feature(feature, offered) ==
    IF feature \in offered THEN ContextFeature ELSE NoFeature

\* A get_<feature> that prefers the feature of the context builder to f.
get_feature_preferring_context(src, feature, offered) ==
    CASE src[feature] = "None" -> NoFeature
      [] src[feature] = "Context" -> ctx_builder_feature(feature, offered)
      [] src[feature] = "Backend" ->
            IF feature \in offered THEN ContextFeature ELSE OverrideFeature

\* get_<feature>(): what it returns, the context builder offering the
\* features of `offered`.
get_feature_returns(src, feature, offered) ==
    CASE src[feature] = "None" -> NoFeature
      [] src[feature] = "Context" -> ctx_builder_feature(feature, offered)
      [] src[feature] = "Backend" -> OverrideFeature

\* get_<feature>(): whether it returns Some.
get_feature(src, feature, offered) ==
    get_feature_returns(src, feature, offered) # NoFeature

\* try_into_backend: the slots of the Backend that are Some.
try_into_backend(src, offered) == [f \in Features |-> get_feature(src, f, offered)]

\* try_into_backend: the features the slots of the Backend hold.
backend_features(src, offered) ==
    [f \in Features |-> get_feature_returns(src, f, offered)]

\* The builder: its sources, the number of set_<feature> calls made on it,
\* whether without_features was the last call made on it, and whether
\* try_into_backend has consumed it.
Builder(src, sets, disabled, consumed) ==
    [src |-> src, sets |-> sets, without_features |-> disabled, consumed |-> consumed]

\* No Backend built yet.
NotBuilt ==
    [built |-> FALSE, slots |-> [f \in Features |-> FALSE], without_features |-> FALSE,
     features |-> [f \in Features |-> NoFeature],
     src |-> [f \in BuilderFeatures |-> "None"], offered |-> {}]

\* No operation invoked yet.
NoInvocation ==
    [op |-> "none", args |-> "", returns_some |-> FALSE, feature_result |-> Ok(""),
     delegated |-> << >>, result |-> Ok("")]

\* A builder just created.
BackendStart ==
    /\ builder = Builder(new_builder, 0, FALSE, FALSE)
    /\ backend = NotBuilt
    /\ invocation = NoInvocation

\* No builder in use.
BackendIdle == BackendStart

\* --------------------------------------------------------- list envelopes

\* The dates of the envelopes of a folder.
Dates == 1 .. MaxEnvelopes

\* The envelopes of a folder as the backend lists them (mdir.list_cur(), the
\* messages of the notmuch query): their dates, in any order, equal dates
\* included.
FolderContents == UNION {[1 .. n -> Dates] : n \in 0 .. MaxEnvelopes}

\* An envelope: its place in the listing of the backend and its date.
ListedEnvelope(id, date) == [id |-> id, date |-> date]

\* Envelopes::from(mdir.list_cur()) / Envelopes::from_notmuch_msgs(msgs)
envelopes_from(content) == [i \in 1 .. Len(content) |-> ListedEnvelope(i, content[i])]

\* envelopes.sort_by(|a, b| b.date.partial_cmp(&a.date).unwrap()): a stable
\* sort, the latest date first.
RECURSIVE sort_by_date(_)
sort_by_date(envs) ==
    IF envs = << >> THEN << >>
    ELSE LET latest == CHOOSE i \in 1 .. Len(envs) :
                          /\ \A j \in 1 .. Len(envs) : envs[j].date <= envs[i].date
                          /\ \A j \in 1 .. (i - 1) : envs[j].date < envs[i].date
         IN << envs[latest] >>
            \o sort_by_date([k \in 1 .. (Len(envs) - 1) |->
                                IF k < latest THEN envs[k] ELSE envs[k + 1]])

\* let page_begin = page * page_size
page_begin(page_size, page) == page * page_size

\* A bounds check that refuses the page that begins right after the last
\* envelope.
out_of_bounds_at_the_end(begin, len) == begin >= len

\* if page_begin > envelopes.len()
out_of_bounds(begin, len) == begin > len

\* A page end that gives page_size no special value.
page_end_of_any_size(len, begin, page_size) ==
    IF begin + page_size < len THEN begin + page_size ELSE len

\* envelopes.len().min(if page_size == 0 { envelopes.len() } else { page_begin + page_size })
page_end(len, begin, page_size) ==
    LET end == IF page_size = 0 THEN len ELSE begin + page_size
    IN IF end < len THEN end ELSE len

\* envelopes[page_begin..page_end]
slice(envs, begin, end) == [i \in 1 .. (end - begin) |-> envs[begin + i]]

\* list_envelopes(folder, page_size, page) of the Maildir backend, and of the
\* Notmuch backend with the envelopes sorted by date.
list_envelopes(content, page_size, page) ==
    LET envs == envelopes_from(content)
        begin == page_begin(page_size, page)
    IN IF out_of_bounds(begin, Len(envs))
       THEN [ok |-> FALSE, error |-> "GetEnvelopesOutOfBoundsError", at |-> begin + 1,
             envelopes |-> << >>]
       ELSE [ok |-> TRUE, error |-> "", at |-> 0,
             envelopes |-> slice(sort_by_date(envs), begin,
                                 page_end(Len(envs), begin, page_size))]

\* No list_envelopes call made yet.
NotListed ==
    [backend |-> "none", page_size |-> 0, page |-> 0,
     result |-> [ok |-> TRUE, error |-> "", at |-> 0, envelopes |-> << >>]]

\* A folder holding any envelopes, nothing listed yet.
ListingStart ==
    /\ cur \in FolderContents
    /\ listing = NotListed

\* An empty folder nothing is asked of.
ListingIdle ==
    /\ cur = << >>
    /\ listing = NotListed

\* ----------------------------------------------------------- purge folder

\* account::config::DEFAULT_TRASH_FOLDER, which no alias renames here.
DEFAULT_TRASH_FOLDER == "Trash"

\* The folders of the Maildir account.
MaildirFolders == {"Work", DEFAULT_TRASH_FOLDER}

\* mdir.list_cur() ... entry.id(): the ids of the entries of a folder, in the
\* order of the directory.
RECURSIVE entry_ids(_, _)
entry_ids(m, ids) ==
    IF ids = << >> THEN << >>
    ELSE (IF m[Head(ids)].has THEN << Head(ids) >> ELSE << >>) \o entry_ids(m, Tail(ids))

\* from_mdir.move_to(id, to_mdir) for each id, stopping at the first move that
\* fails; `fault` is the place of the id whose move fails, 0 for none.
RECURSIVE move_emails(_, _, _, _, _)
move_emails(d, from_folder, to_folder, internal_ids, fault) ==
    IF internal_ids = << >> THEN [ok |-> TRUE, dirs |-> d]
    ELSE IF fault = 1 THEN [ok |-> FALSE, dirs |-> d]
    ELSE LET id == Head(internal_ids)
             moved == [d EXCEPT ![to_folder][id] = d[from_folder][id],
                                ![from_folder][id] = NoEnvelope]
         IN move_emails(moved, from_folder, to_folder, Tail(internal_ids),
                        IF fault = 0 THEN 0 ELSE fault - 1)

\* self.add_flags(folder, internal_ids, flags) with a write that may fail.
RECURSIVE add_flags_to(_, _, _, _, _)
add_flags_to(d, folder, internal_ids, flags, fault) ==
    IF internal_ids = << >> THEN [ok |-> TRUE, dirs |-> d]
    ELSE IF fault = 1 THEN [ok |-> FALSE, dirs |-> d]
    ELSE LET id == Head(internal_ids)
             flagged == [d EXCEPT ![folder][id] = Envelope(@.flags \cup flags)]
         IN add_flags_to(flagged, folder, Tail(internal_ids), flags,
                         IF fault = 0 THEN 0 ELSE fault - 1)

\* A delete_emails that removes the entries of the trash folder.
delete_emails_removing(d, folder, internal_ids, fault) ==
    IF folder = DEFAULT_TRASH_FOLDER
    THEN IF fault # 0 /\ fault <= Len(internal_ids)
         THEN [ok |-> FALSE,
               dirs |-> [d EXCEPT ![folder] = [id \in InternalIds |->
                           IF \E i \in 1 .. (fault - 1) : internal_ids[i] = id
                           THEN NoEnvelope ELSE d[folder][id]]]]
         ELSE [ok |-> TRUE,
               dirs |-> [d EXCEPT ![folder] = [id \in InternalIds |->
                           IF \E i \in 1 .. Len(internal_ids) : internal_ids[i] = id
                           THEN NoEnvelope ELSE d[folder][id]]]]
    ELSE move_emails(d, folder, DEFAULT_TRASH_FOLDER, internal_ids, fault)

\* MaildirBackend::delete_emails(folder, internal_ids)
delete_emails(d, folder, internal_ids, fault) ==
    IF folder = DEFAULT_TRASH_FOLDER
    THEN add_flags_to(d, folder, internal_ids, {"Deleted"}, fault)
    ELSE move_emails(d, folder, DEFAULT_TRASH_FOLDER, internal_ids, fault)

\* MaildirBackend::purge_folder(folder)
purge_folder(d, folder, fault) ==
    delete_emails(d, folder, entry_ids(d[folder], << "id1", "id2" >>), fault)

\* No purge_folder call made yet.
NotPurged == [folder |-> "none", ok |-> TRUE]

\* The folders of an account holding any entries, none purged yet.
PurgeStart ==
    /\ dirs \in [MaildirFolders -> [InternalIds -> EnvelopeValues]]
    /\ purged = NotPurged

\* An account of empty folders nothing is asked of.
PurgeIdle ==
    /\ dirs = [f \in MaildirFolders |-> [id \in InternalIds |-> NoEnvelope]]
    /\ purged = NotPurged

\* ------------------------------------------------------------------- smtp

\* SmtpAuthConfig
SmtpAuth == {"Passwd", "OAuth2"}

\* What the server answers to a connection or to a send: success,
\* mail_send::Error::AuthenticationFailed, or any other mail_send::Error.
Answers == {"ok", "AuthenticationFailed", "other"}

\* What the server and the OAuth 2.0 provider answer during one call, in the
\* order the call may ask: the message has a sender and a recipient, the
\* first connection or send, the refresh of the access token, the reading of
\* the credentials, the second connection, the second send.
ServerAnswers ==
    [msg_ok : BOOLEAN, first : Answers, refresh_ok : BOOLEAN, credentials_ok : BOOLEAN,
     connect : Answers, second : Answers]

\* The result of a call and the steps it took: "connect", "refresh",
\* "credentials" and "send", in order.
SmtpOk(steps) == [ok |-> TRUE, error |-> "", cause |-> "ok", steps |-> steps]
SmtpErr(error, cause, steps) == [ok |-> FALSE, error |-> error, cause |-> cause, steps |-> steps]

\* build_tcp_client / build_tls_client: one connection, its error wrapped.
connect_client(encryption, answer) ==
    IF answer = "ok" THEN SmtpOk(<< "connect" >>)
    ELSE SmtpErr(IF encryption THEN "ConnectTlsError" ELSE "ConnectTcpError", answer,
                 << "connect" >>)

\* A build_client that matches on the result of the first connection:
\* match build_tcp_client(&client_builder).await { .. }
build_client_matching(auth, encryption, answers) ==
    LET first == connect_client(encryption, answers.first)
        again == connect_client(encryption, answers.connect)
    IN IF auth = "Passwd" \/ first.ok \/ first.cause # "AuthenticationFailed" THEN first
       ELSE IF ~answers.refresh_ok
            THEN SmtpErr("RefreshAccessTokenError", "other", << "connect", "refresh" >>)
       ELSE IF ~answers.credentials_ok
            THEN SmtpErr("GetCredentialsError", "other",
                         << "connect", "refresh", "credentials" >>)
       ELSE [again EXCEPT !.steps = << "connect", "refresh", "credentials", "connect" >>]

\* build_client(smtp_config, client_builder) and Smtp::build_client: with
\* OAuth2, match Ok(build_tcp_client(&client_builder).await?) { .. }: the `?`
\* returns the error of the first connection before the match, whose Err arms
\* are never taken.
build_client(auth, encryption, answers) ==
    LET first == connect_client(encryption, answers.first)
    IN IF auth = "Passwd" THEN first
       ELSE first

\* A send that refreshes and tries again after any failure.
send_retrying_any_failure(auth, encryption, answers) ==
    LET again == connect_client(encryption, answers.connect)
    IN IF ~answers.msg_ok THEN SmtpErr("SendEmailMissingSenderError", "other", << >>)
       ELSE IF answers.first = "ok" THEN SmtpOk(<< "send" >>)
       ELSE IF ~answers.refresh_ok
            THEN SmtpErr("RefreshAccessTokenError", "other", << "send", "refresh" >>)
       ELSE IF ~answers.credentials_ok
            THEN SmtpErr("GetCredentialsError", "other", << "send", "refresh", "credentials" >>)
       ELSE IF ~again.ok
            THEN [again EXCEPT !.steps = << "send", "refresh", "credentials", "connect" >>]
       ELSE IF answers.second = "ok"
            THEN SmtpOk(<< "send", "refresh", "credentials", "connect", "send" >>)
       ELSE SmtpErr("SendEmailError", answers.second,
                    << "send", "refresh", "credentials", "connect", "send" >>)

\* SmtpContext::send(msg) and Smtp::send(msg), from into_smtp_msg on.
send(auth, encryption, answers) ==
    LET again == connect_client(encryption, answers.connect)
    IN IF ~answers.msg_ok THEN SmtpErr("SendEmailMissingSenderError", "other", << >>)
       ELSE IF answers.first = "ok" THEN SmtpOk(<< "send" >>)
       ELSE IF auth = "Passwd" \/ answers.first # "AuthenticationFailed"
            THEN SmtpErr("SendEmailError", answers.first, << "send" >>)
       ELSE IF ~answers.refresh_ok
            THEN SmtpErr("RefreshAccessTokenError", "other", << "send", "refresh" >>)
       ELSE IF ~answers.credentials_ok
            THEN SmtpErr("GetCredentialsError", "other", << "send", "refresh", "credentials" >>)
       ELSE IF ~again.ok
            THEN [again EXCEPT !.steps = << "send", "refresh", "credentials", "connect" >>]
       ELSE IF answers.second = "ok"
            THEN SmtpOk(<< "send", "refresh", "credentials", "connect", "send" >>)
       ELSE SmtpErr("SendEmailError", answers.second,
                    << "send", "refresh", "credentials", "connect", "send" >>)

\* The number of times a call took a step.
Count(steps, step) == Cardinality({i \in 1 .. Len(steps) : steps[i] = step})

\* No call made yet.
NoSmtpCall ==
    [kind |-> "none",
     answers |-> [msg_ok |-> TRUE, first |-> "ok", refresh_ok |-> TRUE,
                  credentials_ok |-> TRUE, connect |-> "ok", second |-> "ok"],
     result |-> SmtpOk(<< >>)]

\* A configuration of any authentication and encryption, no client yet.
SmtpStart ==
    /\ smtp \in [auth : SmtpAuth, encryption : BOOLEAN, client : {"none"},
                 credentials : {"initial"}]
    /\ smtp_call = NoSmtpCall

\* A password configuration nothing is asked of.
SmtpIdle ==
    /\ smtp = [auth |-> "Passwd", encryption |-> FALSE, client |-> "none",
               credentials |-> "initial"]
    /\ smtp_call = NoSmtpCall

\* ---------------------------------------------------------------- keyring

\* The service name the cell is created with, and the names an application
\* may ask for.
DefaultServiceName == "keyring-lib"
ServiceNames == {DefaultServiceName, "himalaya", "neverest"}

\* Keyring entry keys and secrets.
Keys == {"key1", "key2"}
Secrets == {"secret1", "secret2"}

\* No secret stored under a service name and a key.
NoSecret == "none"

\* OnceCell::with_value("keyring-lib"): a cell that is full from the start.
with_value(value) == [full |-> TRUE, value |-> value]

\* A cell whose value can be replaced.
once_cell_replace(cell, next) == [full |-> TRUE, value |-> next]

\* OnceCell::set(next): fills an empty cell; a full cell keeps its value and
\* the call returns Err.
once_cell_set(cell, next) == IF cell.full THEN cell ELSE [full |-> TRUE, value |-> next]

\* set_global_service_name(next)
set_global_service_name(cell, next) == once_cell_set(cell, next)

\* Entry::new_native_entry: native::Entry::new(SERVICE_NAME.get().unwrap(), key)
new_native_entry(cell, key) == [service |-> cell.value, key |-> key]

\* Entry::get_secret, find_secret, set_secret and delete_secret: the native
\* entry created, the operation made on it, and the Result returned.
NativeCall(entry, op, ok, value) ==
    [service |-> entry.service, key |-> entry.key, op |-> op, ok |-> ok, value |-> value]

get_secret(k, entry) ==
    LET stored == k[entry.service][entry.key]
    IN IF stored = NoSecret THEN NativeCall(entry, "get_secret", FALSE, "GetSecretError")
       ELSE NativeCall(entry, "get_secret", TRUE, stored)

find_secret(k, entry) ==
    NativeCall(entry, "find_secret", TRUE, k[entry.service][entry.key])

delete_secret(k, entry) ==
    IF k[entry.service][entry.key] = NoSecret
    THEN NativeCall(entry, "delete_secret", FALSE, "DeleteSecretError")
    ELSE NativeCall(entry, "delete_secret", TRUE, NoSecret)

\* No native entry created yet.
NoNativeEntry ==
    [service |-> "none", key |-> "none", op |-> "none", ok |-> TRUE, value |-> NoSecret]

\* An empty keyring, the cell as the library creates it, nothing asked yet.
KeyringIdle ==
    /\ SERVICE_NAME = with_value(DefaultServiceName)
    /\ keyring = [s \in ServiceNames |-> [key \in Keys |-> NoSecret]]
    /\ native_entry = NoNativeEntry
    /\ requested = "none"

\* ------------------------------------------------------- mml interpreter

\* Header names of the messages and of the filters.
HeaderNames == {"From", "Subject"}

\* The characters of an interpreted body: a letter, a space and a newline.
BodyChars == {"a", " ", "\n"}

\* Sequences over a set, up to a length.
SeqUpTo(S, n) == UNION {[1 .. k -> S] : k \in 0 .. n}

\* A header of the message: its name and its value, the value standing for
\* its place in the source.
Header(name, val) == [name |-> name, val |-> val]

\* A character of the MML string, and the newline.
Char(c) == Header(c, 0)
Newline == Char("\n")

\* The characters of a string.
chars(str) == [i \in 1 .. Len(str) |-> Char(str[i])]

\* msg.headers(): the headers of a message by name, in source order.
headers_of(names) == [i \in 1 .. Len(names) |-> Header(names[i], i)]

\* FilterHeaders
FilterAll == [kind |-> "All", keys |-> << >>]
FilterInclude(keys) == [kind |-> "Include", keys |-> keys]
FilterExclude(keys) == [kind |-> "Exclude", keys |-> keys]

\* headers.contains(&header)
contains(keys, key) == \E i \in 1 .. Len(keys) : keys[i] = key

\* The fold of with_show_only_headers: each header pushed unless the vector
\* holds it already.
RECURSIVE fold_unique(_, _)
fold_unique(headers, given) ==
    IF given = << >> THEN headers
    ELSE fold_unique(IF contains(headers, Head(given)) THEN headers
                     ELSE Append(headers, Head(given)),
                     Tail(given))

\* MimeInterpreterBuilder::with_show_only_headers(headers)
with_show_only_headers(given) == FilterInclude(fold_unique(<< >>, given))

\* MimeInterpreterBuilder::with_hide_all_headers()
with_hide_all_headers == FilterInclude(<< >>)

\* msg.header(key): the value of the last header of that name, if any.
header(hs, key) ==
    LET last == CHOOSE i \in 1 .. Len(hs) :
                    hs[i].name = key /\ \A j \in (i + 1) .. Len(hs) : hs[j].name # key
    IN hs[last].val

\* The headers from_msg shows, in the order it pushes them.
RECURSIVE shown_headers(_, _, _)
shown_headers(filter, hs, rest) ==
    IF rest = << >> THEN << >>
    ELSE IF filter.kind = "Include"
    THEN (IF \E i \in 1 .. Len(hs) : hs[i].name = Head(rest)
          THEN << Header(Head(rest), header(hs, Head(rest))) >> ELSE << >>)
         \o shown_headers(filter, hs, Tail(rest))
    ELSE (IF filter.kind = "Exclude" /\ contains(filter.keys, Head(rest).name)
          THEN << >> ELSE << Head(rest) >>)
         \o shown_headers(filter, hs, Tail(rest))

\* mml.push_str(&format!("{key}: {val}\n")) for each header shown: a line and
\* the newline that ends it.
RECURSIVE header_lines(_)
header_lines(shown) ==
    IF shown = << >> THEN << >>
    ELSE << Head(shown), Newline >> \o header_lines(Tail(shown))

\* str::trim_end
RECURSIVE trim_end(_)
trim_end(str) ==
    IF str # << >> /\ str[Len(str)] \in {" ", "\n"}
    THEN trim_end(SubSeq(str, 1, Len(str) - 1))
    ELSE str

\* MimeInterpreter::from_msg(msg), the body as interpret_msg returned it.
from_msg(filter, msg) ==
    LET hs == headers_of(msg.headers)
        block == header_lines(shown_headers(filter, hs,
                                            IF filter.kind = "Include" THEN filter.keys ELSE hs))
    IN block
       \o (IF block # << >> THEN << Newline >> ELSE << >>)
       \o chars(trim_end(msg.body))
       \o << Newline >>

\* No MML string returned yet.
NoMml == [returned |-> FALSE, str |-> << >>]

\* The default builder and any message, nothing interpreted yet.
MmlStart ==
    /\ show_headers = [filter |-> FilterAll, given |-> << >>]
    /\ message \in [headers : SeqUpTo(HeaderNames, MaxHeaders),
                    body : SeqUpTo(BodyChars, MaxBody)]
    /\ mml = NoMml

\* The default builder and an empty message nothing is asked of.
MmlIdle ==
    /\ show_headers = [filter |-> FilterAll, given |-> << >>]
    /\ message = [headers |-> << >>, body |-> << >>]
    /\ mml = NoMml

\* ------------------------------------------------------ email hunk tasks

\* Every email hunk for the message "m1" of folder "Work".
EmailSyncHunks ==
    {GetThenCache("Work", "m1", side) : side \in SyncDestination}
    \cup {CopyThenCache("Work", "m1", flags, source, Other(source), refresh) :
            flags \in SUBSET Flag, source \in SyncDestination, refresh \in BOOLEAN}
    \cup {UpdateFlags("Work", "m1", flags, side) : flags \in SUBSET Flag, side \in SyncDestination}
    \cup {UpdateCachedFlags("Work", "m1", flags, side) :
            flags \in SUBSET Flag, side \in SyncDestination}
    \cup {EmailDelete("Work", "m1", side) : side \in SyncDestination}
    \cup {EmailUncache("Work", "m1", side) : side \in SyncDestination}

\* The task of a hunk: the calls it has made, the flags of the envelope it
\* read with get_envelope, whether it runs or returned Ok or Err, what the
\* stores held when it was spawned, and the entries it gave to the report.
HunkTask(h, step, got, state, before, reported) ==
    [hunk |-> h, step |-> step, got |-> got, state |-> state, before |-> before,
     reported |-> reported]

\* Any hunk on any content of the four stores, its task just spawned.
HunkStart ==
    /\ hunk_stores \in [Stores -> EnvelopeValues]
    /\ \E h \in EmailSyncHunks : hunk_task = HunkTask(h, 0, {}, "running", hunk_stores, <<>>)

\* Empty stores and a task that has returned.
HunkIdle ==
    /\ hunk_stores = [st \in Stores |-> NoEnvelope]
    /\ hunk_task = HunkTask(GetThenCache("Work", "m1", Left), 0, {}, "err",
                            [st \in Stores |-> NoEnvelope],
                            <<Entry(GetThenCache("Work", "m1", Left), TRUE)>>)

\* ------------------------------------------------- authorization code grant

\* The CSRF tokens and authorization codes of the model.
CsrfTokens == {"csrf1", "csrf2"}
AuthorizationCodes == {"code1"}

\* One pair of the query of the redirect URL.
QueryPair(key, value) == [key |-> key, value |-> value]

\* The pairs a redirect request can hold: a state, a code, or another key.
QueryPairs ==
    {QueryPair("state", token) : token \in CsrfTokens}
    \cup {QueryPair("code", code) : code \in AuthorizationCodes}
    \cup {QueryPair("scope", "mail")}

\* The queries of the redirect URL: up to MaxParams pairs, in any order.
Queries == UNION {[1 .. n -> QueryPairs] : n \in 0 .. MaxParams}

\* redirect_url.query_pairs().find(|(key, _)| key == k): the first pair of
\* the query with that key, if any.
find(query, k) ==
    LET places == {i \in 1 .. Len(query) : query[i].key = k}
    IN IF places = {} THEN << >>
       ELSE << query[CHOOSE i \in places : \A j \in places : i <= j].value >>

\* client.exchange_code(code), with set_pkce_verifier when PKCE is configured.
TokenRequest(code, pkce_verifier) == [code |-> code, pkce_verifier |-> pkce_verifier]

\* What a call of wait_for_redirection did: whether it wrote the success
\* response on the connection, the token requests it made, what it returned.
Redirected(response, requests, result) ==
    [response |-> response, requests |-> requests, result |-> result]

\* A wait_for_redirection that does not compare the state with the token.
wait_for_redirection_trusting_state(pkce, csrf_state, accepted, has_url, query, written, exchanged) ==
    IF ~accepted THEN Redirected(FALSE, << >>, Err("AcceptRedirectServerError"))
    ELSE IF ~has_url THEN Redirected(FALSE, << >>, Err("MissingRedirectUrlError"))
    ELSE IF find(query, "state") = << >>
    THEN Redirected(FALSE, << >>, Err("FindStateInRedirectUrlError"))
    ELSE IF find(query, "code") = << >>
    THEN Redirected(FALSE, << >>, Err("FindCodeInRedirectUrlError"))
    ELSE IF ~written THEN Redirected(FALSE, << >>, Err("io error"))
    ELSE LET request == TokenRequest(find(query, "code")[1], pkce)
         IN IF exchanged
            THEN Redirected(TRUE, << request >>, Ok("tokens"))
            ELSE Redirected(TRUE, << request >>, Err("ExchangeCodeError"))

\* AuthorizationCodeGrant::wait_for_redirection(self, client, csrf_state): the
\* connection is accepted or not, the request line holds a URL or not, the
\* response is written or not, the token endpoint answers with tokens or not.
wait_for_redirection(pkce, csrf_state, accepted, has_url, query, written, exchanged) ==
    IF ~accepted THEN Redirected(FALSE, << >>, Err("AcceptRedirectServerError"))
    ELSE IF ~has_url THEN Redirected(FALSE, << >>, Err("MissingRedirectUrlError"))
    ELSE IF find(query, "state") = << >>
    THEN Redirected(FALSE, << >>, Err("FindStateInRedirectUrlError"))
    ELSE IF find(query, "state")[1] # csrf_state
    THEN Redirected(FALSE, << >>, Err("InvalidStateError"))
    ELSE IF find(query, "code") = << >>
    THEN Redirected(FALSE, << >>, Err("FindCodeInRedirectUrlError"))
    ELSE IF ~written THEN Redirected(FALSE, << >>, Err("io error"))
    ELSE LET request == TokenRequest(find(query, "code")[1], pkce)
         IN IF exchanged
            THEN Redirected(TRUE, << request >>, Ok("tokens"))
            ELSE Redirected(TRUE, << request >>, Err("ExchangeCodeError"))

\* AuthorizationCodeGrant::default(): no PKCE.
NewGrant == [pkce |-> FALSE]

\* wait_for_redirection not called yet.
NotRedirected ==
    [called |-> FALSE, csrf_state |-> "csrf1", has_url |-> FALSE, query |-> << >>,
     done |-> Redirected(FALSE, << >>, Err(""))]

\* A grant just created.
OauthStart ==
    /\ grant = NewGrant
    /\ redirection = NotRedirected

\* No grant in use.
OauthIdle == OauthStart

\* ------------------------------------------------------------------ Init

\* Folder cases: any four folder sets under any strategy; no message anywhere.
InitFolders ==
    /\ strategy \in Strategies
    /\ local_folders \in SUBSET FolderNames
    /\ remote_folders \in SUBSET FolderNames
    /\ local_folders_cached \in SUBSET FolderNames
    /\ remote_folders_cached \in SUBSET FolderNames
    /\ envelopes = NoEnvelopes
    /\ permissions = AllowAll
    /\ envelope_filters = Mids

\* Email cases: folder "Work" synchronized on both sides and any envelope of
\* the message of "Work" in each of the four stores, under any permission
\* mask; with it, folder "Old" new on Right (scenario 1) while no cache holds
\* the message yet, or envelope filters that do not match the message, with
\* every permission.
InitEmails ==
    /\ strategy = StrategyAll
    /\ local_folders = {"Work"}
    /\ local_folders_cached = {"Work"}
    /\ remote_folders \in {{"Work"}, {"Work", "Old"}}
    /\ remote_folders_cached = {"Work"}
    /\ \E e \in [Stores -> EnvelopeValues] :
        envelopes = [st \in Stores |->
                        [NoEnvelopes[st] EXCEPT !["Work"] = [m \in Mids |-> e[st]]]]
    /\ permissions \in PermissionChoices
    /\ envelope_filters \in SUBSET Mids
    /\ envelope_filters = {} => (permissions = AllowAll /\ remote_folders = {"Work"})
    /\ remote_folders = {"Work", "Old"} =>
            \A st \in {"left_cache", "right_cache"} : envelopes[st] = NoEnvelopes[st]

\* Event cases: a handler is installed; folder "Old" nowhere or new on Right,
\* and the message of "Work" new on Right, or in the four stores and seen on
\* Left only.
InitEvents ==
    /\ strategy = StrategyAll
    /\ local_folders = {"Work"}
    /\ local_folders_cached = {"Work"}
    /\ remote_folders \in {{"Work"}, {"Work", "Old"}}
    /\ remote_folders_cached = {"Work"}
    /\ \E e \in {[st \in Stores |-> IF st = "right" THEN Envelope({}) ELSE NoEnvelope],
                 [st \in Stores |-> IF st = "left" THEN Envelope({"Seen"}) ELSE Envelope({})]} :
        envelopes = [st \in Stores |->
                        [NoEnvelopes[st] EXCEPT !["Work"] = [m \in Mids |-> e[st]]]]
    /\ permissions = AllowAll
    /\ envelope_filters = Mids

\* No run started yet.
InitRun ==
    /\ pc = "idle"
    /\ run = 1
    /\ outcome = << >>
    /\ faults = 0
    /\ patches = << >>
    /\ queue = << >>
    /\ spawned = 0
    /\ running = {}
    /\ report = EmptyReport
    /\ start = Snapshot
    /\ email_todo = {}
    /\ list_failed = << >>
    /\ email_patch = << >>
    /\ tasks = << >>
    /\ email_report = EmptyBag
    /\ events = EmptyBag
    /\ pending = 0

\* A synchronization over two folders that is not run.
SyncIdle ==
    /\ dry_run = FALSE
    /\ handler = FALSE
    /\ strategy = StrategyAll
    /\ local_folders = FolderNames
    /\ remote_folders = FolderNames
    /\ local_folders_cached = FolderNames
    /\ remote_folders_cached = FolderNames
    /\ envelopes = NoEnvelopes
    /\ permissions = AllowAll
    /\ envelope_filters = Mids
    /\ InitRun

\* The pool before sync gives it a closure, and the pool left aside.
PoolStart == pool = PoolIdle
PoolUnused == pool = PoolIdle

\* One Maildir folder holding any entries with any flags, no call made yet.
MaildirStart ==
    /\ mdir \in [InternalIds -> EnvelopeValues]
    /\ emails = NoCall

Init ==
    /\ dry_run \in BOOLEAN
    /\ \/ handler = FALSE /\ (InitFolders \/ InitEmails)
       \/ handler = TRUE /\ InitEvents
    /\ InitRun
    /\ PoolUnused
    /\ MaildirIdle
    /\ BackendIdle
    /\ ListingIdle
    /\ PurgeIdle
    /\ SmtpIdle
    /\ KeyringIdle
    /\ MmlIdle
    /\ HunkIdle
    /\ OauthIdle

\* --------------------------------------------------------------- actions

\* build_patches: lists the four folder sets and builds the patches; a failing
\* cache connection or listing returns the error.
BuildPatches ==
    /\ pc = "idle"
    /\ \E ok \in Outcomes :
        /\ Injected(ok)
        /\ IF ok
           THEN /\ patches' = build_patch(PatchInputs.local_cache, PatchInputs.local,
                                          PatchInputs.remote_cache, PatchInputs.remote)
                /\ pc' = "built"
           ELSE /\ patches' = << >>
                /\ pc' = "aborted"
    /\ UNCHANGED <<dry_run, handler, strategy, local_folders, local_folders_cached,
                   remote_folders, remote_folders_cached, queue, spawned,
                   running, report, start, run, outcome, emailVars, eventVars>>
    /\ UNCHANGED componentVars

\* apply_patches, dry-run branch: every hunk reported with None, nothing done.
ApplyPatchesDryRun ==
    /\ pc = "built"
    /\ dry_run
    /\ \E order \in Orders(DOMAIN patches) :
        report' = [EmptyReport EXCEPT
                     !.patch = AllSucceeded(Flatten(patches, order)),
                     !.names = DOMAIN patches]
    /\ start' = Snapshot
    /\ pc' = "folders_done"
    /\ UNCHANGED <<dry_run, handler, strategy, local_folders, local_folders_cached,
                   remote_folders, remote_folders_cached, patches, queue,
                   spawned, running, run, outcome, faults, emailVars, eventVars>>
    /\ UNCHANGED componentVars

\* apply_patches, real branch: the stream of hunks is created.
ApplyPatchesStart ==
    /\ pc = "built"
    /\ ~dry_run
    /\ \E order \in Orders(DOMAIN patches) : queue' = Flatten(patches, order)
    /\ spawned' = 0
    /\ running' = {}
    /\ report' = EmptyReport
    /\ start' = Snapshot
    /\ pc' = "applying"
    /\ UNCHANGED <<dry_run, handler, strategy, local_folders, local_folders_cached,
                   remote_folders, remote_folders_cached, patches, run,
                   outcome, faults, emailVars, eventVars>>
    /\ UNCHANGED componentVars

\* A spawn that takes any hunk of the stream not yet spawned.
spawn_any_hunk == (1..Len(queue)) \ (running \cup {i \in 1..Len(queue) :
                        \E e \in BagToSet(report.patch) : e.hunk = queue[i]})

\* The stream yields its hunks in order: the next one to spawn.
next_to_spawn == {spawned + 1}

\* buffer_unordered(16) pulls the next hunk of the stream while fewer than 16
\* tasks are in flight: tokio::spawn.
SpawnHunk ==
    /\ pc = "applying"
    /\ spawned < Len(queue)
    /\ Cardinality(running) < BufferSize
    /\ \E i \in next_to_spawn :
        /\ i \in 1..Len(queue)
        /\ running' = running \cup {i}
        /\ Emit(SetToBag({ApplyFolderHunk(queue[i])}))
    /\ spawned' = spawned + 1
    /\ UNCHANGED <<dry_run, handler, strategy, local_folders, local_folders_cached,
                   remote_folders, remote_folders_cached, patches, queue,
                   report, start, pc, run, outcome, faults, emailVars>>
    /\ UNCHANGED componentVars

\* A spawned task runs process_hunk; its report is folded into the report.
ProcessHunk ==
    /\ pc = "applying"
    /\ \E i \in running : \E ok \in Outcomes :
        LET hunk == queue[i] IN
        /\ (~ok) => IsBackendHunk(hunk)
        /\ Injected(ok)
        /\ running' = running \ {i}
        /\ IF ok
           THEN /\ local_folders' = backend_after(hunk, Left, local_folders)
                /\ remote_folders' = backend_after(hunk, Right, remote_folders)
                /\ report' = [report EXCEPT
                                !.patch = @ (+) SetToBag({Entry(hunk, FALSE)}),
                                !.cache_patch = @ \o cache_hunks(hunk)]
           ELSE /\ UNCHANGED <<local_folders, remote_folders>>
                /\ report' = [report EXCEPT !.patch = @ (+) SetToBag({Entry(hunk, TRUE)})]
    /\ UNCHANGED <<dry_run, handler, strategy, local_folders_cached, remote_folders_cached,
                   patches, queue, spawned, start, pc, run, outcome, emailVars, eventVars>>
    /\ UNCHANGED componentVars

\* A fold that ends as soon as every hunk is spawned, its tasks not awaited.
stream_spawned == spawned = Len(queue)

\* .buffer_unordered(16) ... .fold(...).await: the stream has yielded every hunk
\* and every spawned task has been joined and folded into the report.
stream_folded == spawned = Len(queue) /\ running = {}

\* process_cache_patch: one transaction over the collected cache hunks, once
\* the stream is exhausted. A failure, of the write that follows the first
\* `done` ones or of the commit when all are done, returns from the closure
\* by `?` and drops the transaction.
ProcessCachePatch ==
    /\ pc = "applying"
    /\ stream_folded
    /\ \E ok \in Outcomes :
        /\ Injected(ok)
        /\ IF ok
           THEN /\ local_folders_cached' =
                       cache_after(cache_patch_to_process(report), Left, local_folders_cached)
                /\ remote_folders_cached' =
                       cache_after(cache_patch_to_process(report), Right, remote_folders_cached)
                /\ report' = [report EXCEPT !.names = DOMAIN patches]
           ELSE /\ \E done \in 0 .. Len(cache_patch_to_process(report)) :
                     LET written == SubSeq(cache_patch_to_process(report), 1, done)
                     IN /\ local_folders_cached' =
                             transaction_dropped(local_folders_cached,
                                 cache_after(written, Left, local_folders_cached))
                        /\ remote_folders_cached' =
                             transaction_dropped(remote_folders_cached,
                                 cache_after(written, Right, remote_folders_cached))
                /\ report' = [report EXCEPT !.names = DOMAIN patches, !.cache_err = TRUE]
    /\ pc' = "folders_done"
    /\ UNCHANGED <<dry_run, handler, strategy, local_folders, remote_folders, patches,
                   queue, spawned, running, start, run, outcome, emailVars, eventVars>>
    /\ UNCHANGED componentVars

\* sync(pool, folders): the listing tasks of every folder are spawned.
EmailSyncStart ==
    /\ pc = "folders_done"
    /\ email_todo' = report.names
    /\ list_failed' = << >>
    /\ email_patch' = << >>
    /\ tasks' = << >>
    /\ email_report' = EmptyBag
    /\ pc' = "listing"
    /\ UNCHANGED <<folderVars, envelopes, permissions, envelope_filters, run, outcome,
                   faults, eventVars>>
    /\ UNCHANGED componentVars

\* The four listings of one folder are joined and its patch is built, filtered
\* by the permissions and inserted; with a listing error the folder gets none.
ListEnvelopes ==
    /\ pc = "listing"
    /\ \E folder \in email_todo : \E failed \in ListingFailures :
        /\ failed # {} => faults < MaxFaults
        /\ Injected(failed = {})
        /\ email_todo' = email_todo \ {folder}
        /\ list_failed' = (folder :> failed) @@ list_failed
        /\ Emit(listed_events(envelopes, folder, failed, envelope_filters, dry_run))
        /\ IF listing_result_is_err(dry_run, failed)
           THEN email_patch' = email_patch
           ELSE email_patch' =
                    (folder :> folder_email_patch(envelopes, permissions, folder, failed, envelope_filters))
                    @@ email_patch
    /\ UNCHANGED <<folderVars, envelopes, permissions, envelope_filters, tasks, email_report,
                   pc, run, outcome>>
    /\ UNCHANGED componentVars

\* GeneratedEmailPatch is emitted and one task per hunk is spawned.
SpawnEmailHunks ==
    /\ pc = "listing"
    /\ email_todo = {}
    /\ tasks' = [h \in UNION {email_patch[f] : f \in DOMAIN email_patch} |-> NewTask]
    /\ pc' = "executing"
    /\ Emit(SetToBag({GeneratedEmailPatch}))
    /\ UNCHANGED <<folderVars, envelopes, permissions, envelope_filters, email_todo, list_failed,
                   email_patch, email_report, run, outcome, faults>>
    /\ UNCHANGED componentVars

\* The task of hunk h leaves with (hunk, None) or (hunk, Some(err)).
TaskDone(h, err) ==
    /\ tasks' = [x \in (DOMAIN tasks) \ {h} |-> tasks[x]]
    /\ email_report' = email_report (+) SetToBag({Entry(h, err)})
    /\ Emit(SetToBag({ProcessedEmailHunk(h)}))

\* The task of one email hunk makes its next backend call.
ExecuteEmailHunk ==
    /\ pc = "executing"
    /\ \E h \in DOMAIN tasks :
        IF task_skips(dry_run)
        THEN /\ TaskDone(h, FALSE)
             /\ UNCHANGED <<envelopes, faults>>
        ELSE LET op == hunk_ops(h)[tasks[h].step + 1]
                 st == op_store(h, op)
                 env == envelopes[st][h.folder][h.mid]
                 last == tasks[h].step + 1 = Len(hunk_ops(h))
                 missing == op_needs_message(op) /\ ~env.has
             IN \E ok \in (IF missing THEN {FALSE} ELSE Outcomes) :
                /\ Injected(ok \/ missing)
                /\ IF ~ok
                   THEN /\ TaskDone(h, TRUE)
                        /\ UNCHANGED envelopes
                   ELSE /\ envelopes' =
                              [envelopes EXCEPT ![st][h.folder][h.mid] =
                                  op_effect(h, op, tasks[h].got, env)]
                        /\ IF last
                           THEN TaskDone(h, FALSE)
                           ELSE /\ tasks' = [tasks EXCEPT ![h] =
                                      [step |-> @.step + 1,
                                       got |-> IF op = "get_envelope"
                                               THEN env.flags ELSE @.got]]
                                /\ UNCHANGED <<email_report, eventVars>>
    /\ UNCHANGED <<folderVars, permissions, envelope_filters, email_todo, list_failed,
                   email_patch, pc, run, outcome>>
    /\ UNCHANGED componentVars

\* Some entry of a report holds an error.
HasError(bag) == \E e \in BagToSet(bag) : e.err

\* How a finished run ended: "dry"; "clean" when every hunk succeeded, the
\* cache transaction committed and every listing succeeded; "hunk_failed" when
\* a folder hunk failed and the cache transaction committed; else "failed".
RunOutcome ==
    IF dry_run THEN "dry"
    ELSE IF HasError(report.patch) /\ ~report.cache_err THEN "hunk_failed"
    ELSE IF \/ report.cache_err \/ HasError(email_report)
            \/ \E f \in DOMAIN list_failed : list_failed[f] # {}
         THEN "failed" ELSE "clean"

\* A collect that does not wait for the hunk tasks.
hunks_not_awaited == TRUE

\* .collect::<Vec<_>>().await: every hunk task has been joined.
hunks_collected == DOMAIN tasks = {}

\* ProcessedAllEmailHunks is emitted and sync returns the report.
FinishRun ==
    /\ pc = "executing"
    /\ hunks_collected
    /\ pc' = "done"
    /\ outcome' = Append(outcome, RunOutcome)
    /\ Emit(SetToBag({ProcessedAllEmailHunks}))
    /\ UNCHANGED <<folderVars, emailVars, run, faults>>
    /\ UNCHANGED componentVars

\* The next synchronization, with no external change in between: the patches
\* and the task state of the finished run are gone, its folder report is kept
\* by the caller.
NextRun ==
    /\ pc \in {"done", "aborted"}
    /\ run < MaxRuns
    /\ run' = run + 1
    /\ outcome' = IF pc = "aborted" THEN Append(outcome, "aborted") ELSE outcome
    /\ pc' = "idle"
    /\ patches' = << >>
    /\ queue' = << >>
    /\ spawned' = 0
    /\ email_todo' = {}
    /\ list_failed' = << >>
    /\ email_patch' = << >>
    /\ tasks' = << >>
    /\ email_report' = EmptyBag
    /\ events' = EmptyBag
    /\ UNCHANGED <<dry_run, handler, strategy, local_folders, local_folders_cached,
                   remote_folders, remote_folders_cached, running, report, start,
                   envelopes, permissions, envelope_filters, faults, pending>>
    /\ UNCHANGED componentVars

\* The event handler takes the oldest event of the channel.
HandleEvent ==
    /\ handler
    /\ pending > 0
    /\ pending' = pending - 1
    /\ UNCHANGED <<folderVars, emailVars, pc, run, outcome, faults, events>>
    /\ UNCHANGED componentVars

\* pool.exec(closure): the closure is given to the pool and waits for a
\* context.
Exec ==
    /\ \E c \in PoolClosures :
        /\ pool[c] = NotSubmitted
        /\ may_exec(pool, c)
        /\ pool' = [pool EXCEPT ![c] = Waiting]
    /\ UNCHANGED outsidePool

\* The pool runs a waiting closure with a context no closure holds.
ExecRun ==
    /\ \E c \in PoolClosures : \E ctx \in Contexts :
        /\ pool[c] = Waiting
        /\ context_free(pool, ctx)
        /\ pool' = [pool EXCEPT ![c] = RunningWith(ctx)]
    /\ UNCHANGED outsidePool

\* The future of a closure completes: its context goes back to the pool.
ExecReturn ==
    /\ \E c \in PoolClosures :
        /\ pool[c].state = "running"
        /\ pool' = [pool EXCEPT ![c] = Returned]
    /\ UNCHANGED outsidePool

\* preview_emails is called on the folder.
PreviewEmails ==
    /\ \E ids \in Requests :
        LET returned == preview_emails(mdir, ids)
        IN /\ emails' = Call("preview_emails", ids, mdir, returned)
           /\ mdir' = returned.mdir
    /\ UNCHANGED outsideMaildir

\* get_emails is called on the folder.
GetEmails ==
    /\ \E ids \in Requests :
        LET returned == get_emails(mdir, ids)
        IN /\ emails' = Call("get_emails", ids, mdir, returned)
           /\ mdir' = returned.mdir
    /\ UNCHANGED outsideMaildir

\* The task of a CopyThenCache hunk reads the message of the source, the
\* folder being that of the source backend: peek_messages, then msgs.first()
\* or FindMessageError.
CopyThenCacheRead ==
    /\ \E id \in InternalIds :
        LET returned == peek_messages(mdir, id)
        IN /\ emails' = Call("peek_messages", << id >>, mdir,
                             Returns(returned.ok /\ returned.emails # << >>,
                                     returned.emails, returned.mdir))
           /\ mdir' = returned.mdir
    /\ UNCHANGED outsideMaildir

\* set_<feature>(source), with_<feature>, without_<feature>, with_context_<feature>
SetFeature ==
    /\ ~builder.consumed
    /\ builder.sets < MaxSets
    /\ \E feature \in BuilderFeatures : \E source \in Sources :
        builder' = Builder(set_feature(builder.src, feature, source),
                           builder.sets + 1, FALSE, FALSE)
    /\ UNCHANGED <<backend, invocation>>
    /\ UNCHANGED outsideBackend

\* without_features()
WithoutFeatures ==
    /\ ~builder.consumed
    /\ ~builder.without_features
    /\ builder' = Builder(without_features(builder.src), builder.sets, TRUE, FALSE)
    /\ UNCHANGED <<backend, invocation>>
    /\ UNCHANGED outsideBackend

\* build(): try_into_backend consumes the builder; the Backend is kept with
\* the sources and the context builder it was built from.
TryIntoBackend ==
    /\ ~builder.consumed
    /\ \E offered \in ContextFeatureChoices :
        backend' = [built |-> TRUE, slots |-> try_into_backend(builder.src, offered),
                    without_features |-> builder.without_features,
                    features |-> backend_features(builder.src, offered),
                    src |-> builder.src, offered |-> offered]
    /\ builder' = Builder(new_builder, 0, FALSE, TRUE)
    /\ UNCHANGED invocation
    /\ UNCHANGED outsideBackend

\* An operation is invoked on the Backend; the Backend keeps nothing from one
\* operation to the next, and one operation is invoked on it.
Invoke ==
    /\ backend.built
    /\ invocation = NoInvocation
    /\ \E op \in Operations : \E args \in Arguments : \E returns_some \in BOOLEAN :
       \E feature_result \in FeatureResults :
        LET done == invoke(backend.slots, op, args, returns_some, feature_result)
        IN invocation' =
            [op |-> op, args |-> args, returns_some |-> returns_some,
             feature_result |-> feature_result,
             delegated |-> done.delegated, result |-> done.result]
    /\ UNCHANGED <<builder, backend>>
    /\ UNCHANGED outsideBackend

\* MaildirBackend::list_envelopes(folder, page_size, page)
ListMaildirEnvelopes ==
    /\ \E page_size \in 0 .. MaxPageSize : \E page \in 0 .. MaxPage :
        listing' = [backend |-> "maildir", page_size |-> page_size, page |-> page,
                   result |-> list_envelopes(cur, page_size, page)]
    /\ UNCHANGED cur
    /\ UNCHANGED outsideListing

\* ListNotmuchEnvelopes::list_envelopes(folder, opts)
ListNotmuchEnvelopes ==
    /\ \E page_size \in 0 .. MaxPageSize : \E page \in 0 .. MaxPage :
        listing' = [backend |-> "notmuch", page_size |-> page_size, page |-> page,
                   result |-> list_envelopes(cur, page_size, page)]
    /\ UNCHANGED cur
    /\ UNCHANGED outsideListing

\* MaildirBackend::purge_folder(folder), once on an account.
PurgeFolder ==
    /\ purged = NotPurged
    /\ \E folder \in MaildirFolders : \E fault \in 0 .. MaxIds :
        LET returned == purge_folder(dirs, folder, fault)
        IN /\ dirs' = returned.dirs
           /\ purged' = [folder |-> folder, ok |-> returned.ok]
    /\ UNCHANGED outsidePurge

\* SmtpContextBuilder::build(account_config) and Smtp::new(account_config,
\* smtp_config): the client builder, then build_client.
BuildSmtp ==
    /\ smtp.client = "none"
    /\ smtp_call.kind = "none"
    /\ \E answers \in ServerAnswers :
        LET result == build_client(smtp.auth, smtp.encryption, answers)
            twice == Count(result.steps, "connect") = 2
        IN /\ smtp' = [smtp EXCEPT
                        !.client = IF ~result.ok THEN "none"
                                   ELSE IF twice THEN "rebuilt" ELSE "first",
                        !.credentials = IF twice THEN "refreshed" ELSE @]
           /\ smtp_call' = [kind |-> "build", answers |-> answers, result |-> result]
    /\ UNCHANGED outsideSmtp

\* SmtpContext::send(msg) and Smtp::send(msg), once on a built context.
SendSmtp ==
    /\ smtp.client # "none"
    /\ smtp_call.kind # "send"
    /\ \E answers \in ServerAnswers :
        LET result == send(smtp.auth, smtp.encryption, answers)
        IN /\ smtp' = [smtp EXCEPT
                        !.client = IF Count(result.steps, "send") = 2 THEN "rebuilt" ELSE @,
                        !.credentials = IF Count(result.steps, "connect") = 1
                                        THEN "refreshed" ELSE @]
           /\ smtp_call' = [kind |-> "send", answers |-> answers, result |-> result]
    /\ UNCHANGED outsideSmtp

\* set_global_service_name(next)
SetGlobalServiceName ==
    /\ \E next \in ServiceNames \ {DefaultServiceName} :
        /\ SERVICE_NAME' = set_global_service_name(SERVICE_NAME, next)
        /\ requested' = next
    /\ native_entry' = NoNativeEntry
    /\ UNCHANGED keyring
    /\ UNCHANGED outsideKeyring

\* Entry::get_secret()
GetSecret ==
    /\ \E key \in Keys :
        native_entry' = get_secret(keyring, new_native_entry(SERVICE_NAME, key))
    /\ UNCHANGED <<SERVICE_NAME, keyring, requested>>
    /\ UNCHANGED outsideKeyring

\* Entry::find_secret()
FindSecret ==
    /\ \E key \in Keys :
        native_entry' = find_secret(keyring, new_native_entry(SERVICE_NAME, key))
    /\ UNCHANGED <<SERVICE_NAME, keyring, requested>>
    /\ UNCHANGED outsideKeyring

\* Entry::set_secret(secret)
SetSecret ==
    /\ \E key \in Keys : \E secret \in Secrets :
        LET entry == new_native_entry(SERVICE_NAME, key)
        IN /\ keyring' = [keyring EXCEPT ![entry.service][entry.key] = secret]
           /\ native_entry' = NativeCall(entry, "set_secret", TRUE, secret)
    /\ UNCHANGED <<SERVICE_NAME, requested>>
    /\ UNCHANGED outsideKeyring

\* Entry::delete_secret()
DeleteSecret ==
    /\ \E key \in Keys :
        LET entry == new_native_entry(SERVICE_NAME, key)
            returned == delete_secret(keyring, entry)
        IN /\ keyring' = IF returned.ok
                         THEN [keyring EXCEPT ![entry.service][entry.key] = NoSecret]
                         ELSE keyring
           /\ native_entry' = returned
    /\ UNCHANGED <<SERVICE_NAME, requested>>
    /\ UNCHANGED outsideKeyring

\* MimeInterpreterBuilder::with_show_all_headers()
WithShowAllHeaders ==
    /\ mml = NoMml
    /\ show_headers' = [filter |-> FilterAll, given |-> << >>]
    /\ UNCHANGED <<message, mml>>
    /\ UNCHANGED outsideMml

\* MimeInterpreterBuilder::with_show_only_headers(headers)
WithShowOnlyHeaders ==
    /\ mml = NoMml
    /\ \E given \in SeqUpTo(HeaderNames, MaxKeys) :
        show_headers' = [filter |-> with_show_only_headers(given), given |-> given]
    /\ UNCHANGED <<message, mml>>
    /\ UNCHANGED outsideMml

\* MimeInterpreterBuilder::with_hide_all_headers()
WithHideAllHeaders ==
    /\ mml = NoMml
    /\ show_headers' = [filter |-> with_hide_all_headers, given |-> << >>]
    /\ UNCHANGED <<message, mml>>
    /\ UNCHANGED outsideMml

\* MimeInterpreterBuilder::with_show_headers(FilterHeaders::Exclude(keys))
WithShowHeadersExclude ==
    /\ mml = NoMml
    /\ \E keys \in SeqUpTo(HeaderNames, MaxKeys) :
        show_headers' = [filter |-> FilterExclude(keys), given |-> keys]
    /\ UNCHANGED <<message, mml>>
    /\ UNCHANGED outsideMml

\* MimeInterpreterBuilder::build() then MimeInterpreter::from_msg(msg)
FromMsg ==
    /\ mml = NoMml
    /\ mml' = [returned |-> TRUE, str |-> from_msg(show_headers.filter, message)]
    /\ UNCHANGED <<show_headers, message>>
    /\ UNCHANGED outsideMml

\* The task of the hunk makes its next awaited call, which succeeds or fails;
\* `?` ends the task with the error of a failed call, and the output of the
\* task becomes the entry (hunk, None) or (hunk, Some(err)) of the report.
ExecuteHunkCall ==
    /\ hunk_task.state = "running"
    /\ LET h == hunk_task.hunk
           op == hunk_ops(h)[hunk_task.step + 1]
           st == op_store(h, op)
           env == hunk_stores[st]
           last == hunk_task.step + 1 = Len(hunk_ops(h))
           missing == op_needs_message(op) /\ ~env.has
       IN \E ok \in (IF missing THEN {FALSE} ELSE BOOLEAN) :
            IF ~ok
            THEN /\ hunk_task' = [hunk_task EXCEPT
                                    !.state = "err",
                                    !.reported = <<Entry(h, TRUE)>>]
                 /\ UNCHANGED hunk_stores
            ELSE /\ hunk_stores' = [hunk_stores EXCEPT ![st] =
                                       op_effect(h, op, hunk_task.got, env)]
                 /\ hunk_task' = [hunk_task EXCEPT
                                    !.step = @ + 1,
                                    !.got = IF op = "get_envelope" THEN env.flags ELSE @,
                                    !.state = IF last THEN "ok" ELSE "running",
                                    !.reported = IF last THEN <<Entry(h, FALSE)>>
                                                 ELSE <<>>]
    /\ UNCHANGED outsideHunk

\* with_pkce()
WithPkce ==
    /\ ~redirection.called
    /\ ~grant.pkce
    /\ grant' = [grant EXCEPT !.pkce = TRUE]
    /\ UNCHANGED redirection
    /\ UNCHANGED outsideOauth

\* wait_for_redirection(self, client, csrf_state) consumes the grant.
WaitForRedirection ==
    /\ ~redirection.called
    /\ \E csrf_state \in CsrfTokens : \E query \in Queries :
       \E accepted, has_url, written, exchanged \in BOOLEAN :
        redirection' =
            [called |-> TRUE, csrf_state |-> csrf_state, has_url |-> accepted /\ has_url,
             query |-> query,
             done |-> wait_for_redirection(grant.pkce, csrf_state, accepted, has_url,
                                           query, written, exchanged)]
    /\ UNCHANGED grant
    /\ UNCHANGED outsideOauth

Next ==
    \/ BuildPatches
    \/ ApplyPatchesDryRun
    \/ ApplyPatchesStart
    \/ SpawnHunk
    \/ ProcessHunk
    \/ ProcessCachePatch
    \/ EmailSyncStart
    \/ ListEnvelopes
    \/ SpawnEmailHunks
    \/ ExecuteEmailHunk
    \/ FinishRun
    \/ NextRun
    \/ HandleEvent

Spec == Init /\ [][Next]_vars

\* The steps of the synchronization itself: every spawned task is scheduled
\* and every backend call returns.
SyncStep ==
    \/ BuildPatches
    \/ ApplyPatchesDryRun
    \/ ApplyPatchesStart
    \/ SpawnHunk
    \/ ProcessHunk
    \/ ProcessCachePatch
    \/ EmailSyncStart
    \/ ListEnvelopes
    \/ SpawnEmailHunks
    \/ ExecuteEmailHunk
    \/ FinishRun

\* The runs with a handler installed.
InitHandled == Init /\ handler

\* The runs with a handler installed, the runtime scheduling the tasks of the
\* synchronization fairly; nothing is assumed of the handler, which may never
\* take an event.
FairSpec == InitHandled /\ [][Next]_vars /\ WF_vars(SyncStep)

\* The pool on its own: the closures of one sync over two folders, nothing
\* else moving.
PoolInit ==
    /\ SyncIdle
    /\ PoolStart
    /\ MaildirIdle
    /\ BackendIdle
    /\ ListingIdle
    /\ PurgeIdle
    /\ SmtpIdle
    /\ KeyringIdle
    /\ MmlIdle
    /\ HunkIdle
    /\ OauthIdle

PoolNext ==
    \/ Exec
    \/ ExecRun
    \/ ExecReturn

PoolSpec == PoolInit /\ [][PoolNext]_vars

\* The Maildir backend on its own: one folder holding any entries with any
\* flags, and the calls that read messages from it.
MaildirInit ==
    /\ SyncIdle
    /\ PoolUnused
    /\ MaildirStart
    /\ BackendIdle
    /\ ListingIdle
    /\ PurgeIdle
    /\ SmtpIdle
    /\ KeyringIdle
    /\ MmlIdle
    /\ HunkIdle
    /\ OauthIdle

MaildirNext ==
    \/ PreviewEmails
    \/ GetEmails
    \/ CopyThenCacheRead

MaildirSpec == MaildirInit /\ [][MaildirNext]_vars

\* The backend on its own: a builder is configured, the Backend is built and
\* operations are invoked on it.
BackendInit ==
    /\ SyncIdle
    /\ PoolUnused
    /\ MaildirIdle
    /\ BackendStart
    /\ ListingIdle
    /\ PurgeIdle
    /\ SmtpIdle
    /\ KeyringIdle
    /\ MmlIdle
    /\ HunkIdle
    /\ OauthIdle

BackendNext ==
    \/ SetFeature
    \/ WithoutFeatures
    \/ TryIntoBackend
    \/ Invoke

BackendSpec == BackendInit /\ [][BackendNext]_vars

\* The listing of envelopes on its own: one folder and the pages asked of it.
ListingInit ==
    /\ SyncIdle
    /\ PoolUnused
    /\ MaildirIdle
    /\ BackendIdle
    /\ ListingStart
    /\ PurgeIdle
    /\ SmtpIdle
    /\ KeyringIdle
    /\ MmlIdle
    /\ HunkIdle
    /\ OauthIdle

ListingNext ==
    \/ ListMaildirEnvelopes
    \/ ListNotmuchEnvelopes

ListingSpec == ListingInit /\ [][ListingNext]_vars

\* purge_folder on its own: one Maildir account and one purge.
PurgeInit ==
    /\ SyncIdle
    /\ PoolUnused
    /\ MaildirIdle
    /\ BackendIdle
    /\ ListingIdle
    /\ PurgeStart
    /\ SmtpIdle
    /\ KeyringIdle
    /\ MmlIdle
    /\ HunkIdle
    /\ OauthIdle

PurgeNext == PurgeFolder

PurgeSpec == PurgeInit /\ [][PurgeNext]_vars

\* The SMTP context on its own: one configuration, its build and one send.
SmtpInit ==
    /\ SyncIdle
    /\ PoolUnused
    /\ MaildirIdle
    /\ BackendIdle
    /\ ListingIdle
    /\ PurgeIdle
    /\ SmtpStart
    /\ KeyringIdle
    /\ MmlIdle
    /\ HunkIdle
    /\ OauthIdle

SmtpNext ==
    \/ BuildSmtp
    \/ SendSmtp

SmtpSpec == SmtpInit /\ [][SmtpNext]_vars

\* The keyring library on its own: the global cell and the entries of one
\* process.
KeyringInit ==
    /\ SyncIdle
    /\ PoolUnused
    /\ MaildirIdle
    /\ BackendIdle
    /\ ListingIdle
    /\ PurgeIdle
    /\ SmtpIdle
    /\ KeyringIdle
    /\ MmlIdle
    /\ HunkIdle
    /\ OauthIdle

KeyringNext ==
    \/ SetGlobalServiceName
    \/ GetSecret
    \/ FindSecret
    \/ SetSecret
    \/ DeleteSecret

KeyringSpec == KeyringInit /\ [][KeyringNext]_vars

\* The MIME to MML interpreter on its own: one builder, one message.
MmlInit ==
    /\ SyncIdle
    /\ PoolUnused
    /\ MaildirIdle
    /\ BackendIdle
    /\ ListingIdle
    /\ PurgeIdle
    /\ SmtpIdle
    /\ KeyringIdle
    /\ MmlStart
    /\ HunkIdle
    /\ OauthIdle

MmlNext ==
    \/ WithShowAllHeaders
    \/ WithShowOnlyHeaders
    \/ WithHideAllHeaders
    \/ WithShowHeadersExclude
    \/ FromMsg

MmlSpec == MmlInit /\ [][MmlNext]_vars

\* The task of one email hunk on its own, for every hunk and every content
\* of the four stores.
HunkInit ==
    /\ SyncIdle
    /\ PoolUnused
    /\ MaildirIdle
    /\ BackendIdle
    /\ ListingIdle
    /\ PurgeIdle
    /\ SmtpIdle
    /\ KeyringIdle
    /\ MmlIdle
    /\ HunkStart
    /\ OauthIdle

HunkNext == ExecuteHunkCall

HunkSpec == HunkInit /\ [][HunkNext]_vars

\* The authorization code grant on its own: one grant, one redirection.
OauthInit ==
    /\ SyncIdle
    /\ PoolUnused
    /\ MaildirIdle
    /\ BackendIdle
    /\ ListingIdle
    /\ PurgeIdle
    /\ SmtpIdle
    /\ KeyringIdle
    /\ MmlIdle
    /\ HunkIdle
    /\ OauthStart

OauthNext == WithPkce \/ WaitForRedirection

OauthSpec == OauthInit /\ [][OauthNext]_vars

\* ---------------------------------------------------------------- claims

\* The table of section 4.1, as written in the specification: for each
\* presence vector (lc, l, rc, r) the ordered list of (hunk kind, side).
Section41(lc, l, rc, r) ==
    CASE <<lc, l, rc, r>> = <<0, 0, 0, 0>> -> << >>
      [] <<lc, l, rc, r>> = <<0, 0, 0, 1>> ->
            << <<"Cache", Left>>, <<"Create", Left>>, <<"Cache", Right>> >>
      [] <<lc, l, rc, r>> = <<0, 0, 1, 0>> -> << <<"Uncache", Right>> >>
      [] <<lc, l, rc, r>> = <<0, 0, 1, 1>> -> << <<"Cache", Left>>, <<"Create", Left>> >>
      [] <<lc, l, rc, r>> = <<0, 1, 0, 0>> ->
            << <<"Cache", Left>>, <<"Cache", Right>>, <<"Create", Right>> >>
      [] <<lc, l, rc, r>> = <<0, 1, 0, 1>> -> << <<"Cache", Left>>, <<"Cache", Right>> >>
      [] <<lc, l, rc, r>> = <<0, 1, 1, 0>> -> << <<"Cache", Left>>, <<"Create", Right>> >>
      [] <<lc, l, rc, r>> = <<0, 1, 1, 1>> -> << <<"Cache", Left>> >>
      [] <<lc, l, rc, r>> = <<1, 0, 0, 0>> -> << <<"Uncache", Left>> >>
      [] <<lc, l, rc, r>> = <<1, 0, 0, 1>> -> << <<"Create", Left>>, <<"Cache", Right>> >>
      [] <<lc, l, rc, r>> = <<1, 0, 1, 0>> -> << <<"Uncache", Left>>, <<"Uncache", Right>> >>
      [] <<lc, l, rc, r>> = <<1, 0, 1, 1>> ->
            << <<"Uncache", Left>>, <<"Uncache", Right>>, <<"Delete", Right>> >>
      [] <<lc, l, rc, r>> = <<1, 1, 0, 0>> -> << <<"Cache", Right>>, <<"Create", Right>> >>
      [] <<lc, l, rc, r>> = <<1, 1, 0, 1>> -> << <<"Cache", Right>> >>
      [] <<lc, l, rc, r>> = <<1, 1, 1, 0>> ->
            << <<"Uncache", Left>>, <<"Delete", Left>>, <<"Uncache", Right>> >>
      [] <<lc, l, rc, r>> = <<1, 1, 1, 1>> -> << >>

Bit(b) == IF b THEN 1 ELSE 0

\* The presence vector of a folder in four folder sets.
Vector(f, in) ==
    <<Bit(f \in in.local_cache), Bit(f \in in.local),
      Bit(f \in in.remote_cache), Bit(f \in in.remote)>>

\* The hunks of section 4.1 for folder f with presence vector v.
Section41Hunks(f, v) ==
    LET row == Section41(v[1], v[2], v[3], v[4])
    IN [i \in 1..Len(row) |-> FolderSyncHunk(row[i][1], f, row[i][2])]

\* A folder is in all four folder sets or in none of them.
Agree(f, in) == Vector(f, in) \in {<<0, 0, 0, 0>>, <<1, 1, 1, 1>>}

\* The folders the strategy admits.
Admitted == StrategyFilter(strategy, FolderNames)

\* C1: for every presence vector of a folder in the four input sets, build_patch
\* returns for that folder exactly the ordered hunk list of the table of
\* section 4.1 (no entry when the folder is in none of the sets), whatever the
\* vector of the other folder.
C1_FolderDiffCompleteness ==
    pc = "built" =>
        \A f \in FolderNames :
            LET v == Vector(f, PatchInputs)
            IN IF v = <<0, 0, 0, 0>>
               THEN f \notin DOMAIN patches
               ELSE f \in DOMAIN patches /\ patches[f] = Section41Hunks(f, v)

\* C1, its case: one folder in row 0110 and the other in row 1011, in one patch.
C1_Witness ==
    /\ pc = "built"
    /\ Vector("Work", PatchInputs) = <<0, 1, 1, 0>>
    /\ Vector("Old", PatchInputs) = <<1, 0, 1, 1>>
    /\ Len(patches["Work"]) = 2
    /\ Len(patches["Old"]) = 3

\* A real run whose folder hunks all succeeded and whose cache transaction
\* committed.
FolderPhaseClean ==
    /\ ~dry_run
    /\ pc \in {"folders_done", "listing", "executing", "done"}
    /\ ~HasError(report.patch)
    /\ ~report.cache_err

\* C2: when every hunk of the patch and the cache transaction succeeded, every
\* folder of the four input sets is in all four of L, Lc, R, Rc or in none;
\* scenario 1 (row 0001) ends with the folder everywhere, scenario 2 (row 1011)
\* with the folder nowhere.
C2_FoldersConverge ==
    FolderPhaseClean =>
        \A f \in Admitted :
            /\ Agree(f, Snapshot)
            /\ Vector(f, start) = <<0, 0, 0, 1>> => Vector(f, Snapshot) = <<1, 1, 1, 1>>
            /\ Vector(f, start) = <<1, 0, 1, 1>> => Vector(f, Snapshot) = <<0, 0, 0, 0>>

\* C2, its case: scenario 1 for "Work" and scenario 2 for "Old", both applied.
C2_Witness ==
    /\ FolderPhaseClean
    /\ pc = "folders_done"
    /\ Vector("Work", start) = <<0, 0, 0, 1>>
    /\ Vector("Old", start) = <<1, 0, 1, 1>>
    /\ "Work" \in local_folders
    /\ "Old" \notin remote_folders

\* All the hunks of the email patches.
EmailHunks == UNION {email_patch[f] : f \in DOMAIN email_patch}

\* The email patch of the run is complete and no task has made a call yet.
EmailPatchBuilt ==
    /\ pc = "executing"
    /\ DOMAIN tasks = EmailHunks
    /\ \A h \in DOMAIN tasks : tasks[h].step = 0

\* C3: idempotence. After a first real run in which every hunk succeeded, the
\* second run, with no external change in between, builds no folder hunk and no
\* email hunk.
C3_Idempotence ==
    (run = 2 /\ outcome = << "clean" >> /\ permissions = AllowAll /\ faults = 0) =>
        /\ pc = "built" => \A f \in DOMAIN patches : patches[f] = << >>
        /\ EmailPatchBuilt => EmailHunks = {}

\* The task of the i-th hunk of the stream has been spawned.
Started(i) ==
    i \in running \/ \E e \in BagToSet(report.patch) : e.hunk = queue[i]

\* The task of the i-th hunk of the stream has finished.
Finished(i) == \E e \in BagToSet(report.patch) : e.hunk = queue[i]

RECURSIVE OfFolder(_, _)
OfFolder(q, f) ==
    IF q = << >> THEN << >>
    ELSE (IF Head(q).folder = f THEN << Head(q) >> ELSE << >>) \o OfFolder(Tail(q), f)

C5_PartialFailureRetried ==
    \A f \in FolderNames :
        (/\ run = 2 /\ pc = "built"
         /\ Vector(f, start) = <<0, 0, 0, 1>>
         /\ BagIn(Entry(Create(f, Left), TRUE), report.patch)
         /\ ~report.cache_err)
        => /\ f \in local_folders_cached /\ f \in remote_folders_cached
           /\ \E i \in 1..Len(patches[f]) : patches[f][i] = Create(f, Left)
           /\ \A i \in 1..Len(patches[f]) : patches[f][i] # Delete(f, Right)

\* C6: no cross-hunk rollback, and the next diff corrects the state. The cache
\* hunks of the hunks that succeeded are committed although a backend hunk of
\* the run failed, and the next run, if nothing fails in it, ends with every
\* folder in all four sets or in none: its patch is then empty.
C6_NoRollbackThenCorrected ==
    /\ (/\ ~dry_run /\ pc \in {"folders_done", "listing", "executing", "done"}
        /\ ~report.cache_err)
       => \A e \in {x \in BagToSet(report.patch) : ~x.err} :
            /\ (e.hunk.kind = "Cache" /\ e.hunk.side = Left) => e.hunk.folder \in local_folders_cached
            /\ (e.hunk.kind = "Cache" /\ e.hunk.side = Right) => e.hunk.folder \in remote_folders_cached
            /\ (e.hunk.kind = "Uncache" /\ e.hunk.side = Left) => e.hunk.folder \notin local_folders_cached
            /\ (e.hunk.kind = "Uncache" /\ e.hunk.side = Right) => e.hunk.folder \notin remote_folders_cached
    /\ (/\ pc = "done" /\ Len(outcome) >= 2
        /\ outcome[Len(outcome) - 1] = "hunk_failed"
        /\ outcome[Len(outcome)] = "clean")
       => LET next == build_patch(PatchInputs.local_cache, PatchInputs.local,
                                  PatchInputs.remote_cache, PatchInputs.remote)
          IN /\ \A f \in Admitted : Agree(f, Snapshot)
             /\ \A f \in DOMAIN next : next[f] = << >>

\* C6, its case: Create(L) of scenario 1 failed in the first run with the cache
\* committed (the second run started from row 1011), and the second run was
\* clean.
C6_Witness ==
    /\ pc = "done"
    /\ outcome = << "hunk_failed", "clean" >>
    /\ Vector("Work", start) = <<1, 0, 1, 1>>
    /\ Vector("Work", Snapshot) = <<0, 0, 0, 0>>

\* The number of entries a report holds for a hunk.
Entries(bag, hunk) ==
    CopiesIn(Entry(hunk, FALSE), bag) + CopiesIn(Entry(hunk, TRUE), bag)

\* The folders of one side's backend.
BackendFolders(side) == IF side = Left THEN local_folders ELSE remote_folders

\* The folder phase of the run is over.
FoldersApplied == pc \in {"folders_done", "listing", "executing", "done"}

\* C7: per-hunk failures are reported, not fatal. Once apply_patches of a real
\* run has returned, its report holds every hunk of the patch exactly once, a
\* Create or Delete reported with None has acted on its backend and one
\* reported with an error has not, whatever happened to the other hunks; once
\* the email hunks are processed the email report holds every email hunk
\* exactly once, and a Delete reported with None has flagged its message.
C7_FailuresReportedNotFatal ==
    /\ (~dry_run /\ FoldersApplied) =>
        /\ BagCardinality(report.patch) = Len(queue)
        /\ \A i \in 1..Len(queue) : Entries(report.patch, queue[i]) = 1
        /\ \A e \in BagToSet(report.patch) :
            /\ e.hunk.kind = "Create" => (e.err <=> e.hunk.folder \notin BackendFolders(e.hunk.side))
            /\ e.hunk.kind = "Delete" => (e.err <=> e.hunk.folder \in BackendFolders(e.hunk.side))
            /\ e.hunk.kind \in {"Cache", "Uncache"} => ~e.err
    /\ (~dry_run /\ pc = "done") =>
        /\ BagCardinality(email_report) = Cardinality(EmailHunks)
        /\ \A h \in EmailHunks : Entries(email_report, h) = 1
        /\ \A e \in BagToSet(email_report) :
            (e.hunk.kind = "Delete" /\ ~e.err) =>
                "Deleted" \in envelopes[Backend(e.hunk.side)][e.hunk.folder][e.hunk.mid].flags

\* C7, its case: Create(L) of scenario 1 failed and is reported with its error
\* next to the two cache hunks, reported with None.
C7_Witness ==
    /\ ~dry_run /\ pc = "folders_done"
    /\ BagIn(Entry(Create("Work", Left), TRUE), report.patch)
    /\ BagIn(Entry(Cache("Work", Left), FALSE), report.patch)
    /\ BagIn(Entry(Cache("Work", Right), FALSE), report.patch)
    /\ "Work" \notin local_folders

\* The hunks of all the folder patches.
FolderHunks == UNION {{patches[f][i] : i \in 1..Len(patches[f])} : f \in DOMAIN patches}

\* C8: with dry_run = true no backend and no cache is changed (the folder sets
\* and the envelopes of the four stores stay what they were), and the reports
\* list every folder hunk and every email hunk once, each with None.
C8_DryRunChangesNothing ==
    dry_run =>
        /\ Snapshot = start
        /\ FoldersApplied =>
            /\ BagToSet(report.patch) = {Entry(h, FALSE) : h \in FolderHunks}
            /\ BagCardinality(report.patch) = Cardinality(FolderHunks)
            /\ report.cache_patch = << >>
        /\ pc = "done" =>
            /\ BagToSet(email_report) = {Entry(h, FALSE) : h \in EmailHunks}
            /\ BagCardinality(email_report) = Cardinality(EmailHunks)

\* C8, its case: a finished dry run of scenario 1 for folder "Old", with email
\* hunks for the message of "Work".
C8_Witness ==
    /\ dry_run /\ pc = "done"
    /\ Vector("Old", start) = <<0, 0, 0, 1>>
    /\ BagIn(Entry(Create("Old", Left), FALSE), report.patch)
    /\ "Old" \notin local_folders
    /\ BagCardinality(email_report) >= 2

\* The email hunks a real run computes from the state and the listing
\* outcomes of this run.
RealRunEmailHunks ==
    UNION {folder_email_patch(envelopes, permissions, f, list_failed[f], envelope_filters) :
            f \in {g \in DOMAIN list_failed : ~listing_result_is_err(FALSE, list_failed[g])}}

\* C9: dry-run neutrality. For any contents of the stores and any outcome of
\* the listing calls, a dry run computes the email hunk set a real run computes
\* from the same state with the same listing outcomes.
C9_DryRunNeutrality ==
    (dry_run /\ EmailPatchBuilt) => EmailHunks = RealRunEmailHunks

\* A real run has just finished in which every folder hunk and every email
\* hunk succeeded, every listing succeeded, and no permission dropped a hunk.
CleanRunDone ==
    /\ pc = "done"
    /\ ~dry_run
    /\ outcome[Len(outcome)] = "clean"
    /\ permissions = AllowAll

\* The folders whose envelopes the run has synchronized.
SyncedFolders == DOMAIN email_patch

\* The messages whose envelopes the envelope filters match.
MatchedMids == {m \in Mids : matches(envelope_filters, m)}

\* The presence vector of message m of folder f in the envelopes `envs`.
Row(envs, f, m) ==
    <<Bit(envs["left_cache"][f][m].has), Bit(envs["left"][f][m].has),
      Bit(envs["right_cache"][f][m].has), Bit(envs["right"][f][m].has)>>

\* The four stores hold message m of folder f.
HeldByAll(f, m) == \A st \in Stores : envelopes[st][f][m].has

\* The four stores hold the same flags for message m of folder f.
SameFlags(f, m) ==
    \A s1, s2 \in Stores : envelopes[s1][f][m].flags = envelopes[s2][f][m].flags

\* C10, as claimed (I2): after a run in which every hunk succeeded, every
\* message (matched by the envelope filters) held by some store of a synced
\* folder is held by the four stores with identical flags.
C10_Convergence ==
    CleanRunDone =>
        \A f \in SyncedFolders : \A m \in MatchedMids :
            (\E st \in Stores : envelopes[st][f][m].has) =>
                HeldByAll(f, m) /\ SameFlags(f, m)

\* The rows of the envelope table with no deletion to propagate: the message
\* is on a backend, and on the backend of every side whose cache holds it.
NoDeletionRows ==
    {v \in [1..4 -> {0, 1}] : v[2] + v[4] >= 1 /\ v[1] <= v[2] /\ v[3] <= v[4]}

\* The rows after which the flags of the four stores are identical: the message
\* is in all four stores, or new on exactly one backend.
FlagConvergingRows == {<<1, 1, 1, 1>>, <<0, 0, 0, 1>>, <<0, 1, 0, 0>>}

\* C10, amended: after a run in which every hunk succeeded, a message of a
\* synced folder, matched by the envelope filters, that the run found on a backend, and in no cache whose backend
\* lacked it, is held by the four stores; when the run found it in all four
\* stores, or on one backend only and in no cache, the four stores hold
\* identical flags for it.
C10_ConvergenceWithoutDeletion ==
    CleanRunDone =>
        \A f \in SyncedFolders : \A m \in MatchedMids :
            /\ Row(start.envelopes, f, m) \in NoDeletionRows => HeldByAll(f, m)
            /\ Row(start.envelopes, f, m) \in FlagConvergingRows => SameFlags(f, m)

\* C10, its case: a message found on Right only, carrying a flag, is copied to
\* Left and cached on both sides with that flag.
C10_Witness ==
    /\ CleanRunDone
    /\ Row(start.envelopes, "Work", "m1") = <<0, 0, 0, 1>>
    /\ start.envelopes["right"]["Work"]["m1"].flags = {"Seen"}
    /\ envelopes["left"]["Work"]["m1"] = Envelope({"Seen"})
    /\ envelopes["left_cache"]["Work"]["m1"] = Envelope({"Seen"})

\* C11: folder hunks complete before the email phase. While the envelopes of a
\* run are listed or its email hunks run, no folder hunk task is in flight,
\* every folder hunk of the run is in the folder report, the folder-cache
\* transaction is over, and in a real run the folders listed are those of the
\* applied patches.
C11_FolderHunksBeforeEmailHunks ==
    pc \in {"listing", "executing"} =>
        /\ running = {}
        /\ spawned = Len(queue)
        /\ \A i \in 1..Len(queue) : Finished(i)
        /\ report.names = DOMAIN patches
        /\ (email_todo \cup DOMAIN list_failed \cup DOMAIN email_patch) \subseteq report.names
        /\ \A h \in DOMAIN tasks : h.folder \in report.names

\* C11, its case: the envelopes of folder "Old" are listed in the run that
\* created "Old" on Left and cached it.
C11_Witness ==
    /\ ~dry_run /\ pc = "listing"
    /\ "Old" \in DOMAIN list_failed
    /\ BagIn(Entry(Create("Old", Left), FALSE), report.patch)
    /\ "Old" \in local_folders /\ "Old" \in local_folders_cached

\* C12: filter respect. Every folder of the patches, of the hunk stream and of
\* the folder report is admitted by the strategy, in whichever of the four
\* folder sets a rejected folder is; every email hunk of the patch, of the tasks
\* and of the email report references a message whose envelope the envelope
\* filters match, in whichever of the four stores a rejected envelope is.
C12_FilterRespect ==
    /\ DOMAIN patches \subseteq Admitted
    /\ \A i \in 1..Len(queue) : queue[i].folder \in Admitted
    /\ \A e \in BagToSet(report.patch) : e.hunk.folder \in Admitted
    /\ report.names \subseteq Admitted
    /\ \A h \in EmailHunks \cup DOMAIN tasks : matches(envelope_filters, h.mid)
    /\ \A e \in BagToSet(email_report) : matches(envelope_filters, e.hunk.mid)

\* C12, its case: folder "Work" is excluded by the strategy while a cache and
\* a backend hold it, and the patches built hold hunks for "Old" only.
C12_Witness ==
    /\ pc = "built"
    /\ strategy = StrategyExclude({"Work"})
    /\ "Work" \in local_folders_cached /\ "Work" \in remote_folders
    /\ DOMAIN patches = {"Old"}
    /\ Len(patches["Old"]) = 3

\* A folder hunk the permissions of its side allow.
FolderHunkPermitted(h) ==
    /\ h.kind = "Create" => permissions[h.side].create
    /\ h.kind = "Delete" => permissions[h.side].delete

\* An email hunk the permissions of its side allow.
EmailHunkPermitted(h) ==
    /\ h.kind = "CopyThenCache" => permissions[h.side].create
    /\ h.kind = "Delete" => permissions[h.side].delete
    /\ h.kind = "UpdateFlags" => permissions[h.side].flags

\* C13: permission mask. In a real run no hunk that is spawned or reported,
\* folder or email, performs a create, delete or flag update that the
\* permissions forbid on its side.
C13_PermissionMask ==
    ~dry_run =>
        /\ \A i \in 1..Len(queue) : Started(i) => FolderHunkPermitted(queue[i])
        /\ \A h \in EmailHunks \cup DOMAIN tasks : EmailHunkPermitted(h)
        /\ \A e \in BagToSet(email_report) : EmailHunkPermitted(e.hunk)

\* The email hunks of folder f among the tasks and the report entries.
HunksInFlightOrReported(f) ==
    {h \in DOMAIN tasks : h.folder = f}
        \cup {e.hunk : e \in {x \in BagToSet(email_report) : x.hunk.folder = f}}

\* C14: a failed listing aborts only its folder. In a real run, once the
\* listings are joined, a folder one of whose four listings failed has no email
\* patch, no task and no report entry, while every other folder has the patch
\* built from its four listings, each of its hunks is executed, and when sync
\* returns its report holds each of them.
C14_ListingFailureAbortsOnlyItsFolder ==
    (~dry_run /\ pc \in {"executing", "done"}) =>
        \A f \in report.names :
            IF list_failed[f] # {}
            THEN f \notin DOMAIN email_patch /\ HunksInFlightOrReported(f) = {}
            ELSE /\ f \in DOMAIN email_patch
                 /\ EmailPatchBuilt =>
                        email_patch[f] = folder_email_patch(envelopes, permissions, f, {},
                                                            envelope_filters)
                 /\ HunksInFlightOrReported(f) = email_patch[f]
                 /\ pc = "done" => \A h \in email_patch[f] : Entries(email_report, h) = 1

\* C14, its case: a listing of folder "Old" failed, and the hunks of folder
\* "Work" were built and executed and are in the report sync returns.
C14_Witness ==
    /\ ~dry_run /\ pc = "done"
    /\ DOMAIN list_failed = {"Work", "Old"}
    /\ list_failed["Old"] # {}
    /\ list_failed["Work"] = {}
    /\ "Old" \notin DOMAIN email_patch
    /\ Cardinality(email_patch["Work"]) >= 2
    /\ \A h \in email_patch["Work"] : BagIn(Entry(h, FALSE), email_report)

\* The event the specification names for a processed folder hunk.
ProcessedFolderHunk(hunk) == Event("ProcessedFolderHunk", hunk.folder, hunk, 0)

\* C15: a processed event per hunk. Once the folder hunks of a run are applied
\* (or skipped by dry-run), ProcessedFolderHunk(hunk) has been emitted exactly
\* once for each of them; once sync has returned, ProcessedEmailHunk(hunk) has
\* been emitted exactly once for each email hunk, whatever its outcome.
C15_ProcessedEventPerHunk ==
    /\ FoldersApplied =>
        \A h \in FolderHunks : CopiesIn(ProcessedFolderHunk(h), events) = 1
    /\ pc = "done" =>
        \A h \in EmailHunks : CopiesIn(ProcessedEmailHunk(h), events) = 1

\* The events of a bag that are of one of the kinds.
OfKinds(bag, kinds) == {e \in BagToSet(bag) : e.kind \in kinds}

ListedKinds ==
    {"ListedLeftCachedEnvelopes", "ListedLeftEnvelopes",
     "ListedRightCachedEnvelopes", "ListedRightEnvelopes"}

\* What the events emitted so far in a run say of their order.
EventsWellOrdered ==
    /\ CopiesIn(GeneratedEmailPatch, events) <= 1
    /\ CopiesIn(ProcessedAllEmailHunks, events) <= 1
    /\ OfKinds(events, {"ProcessedEmailHunk"}) # {} => BagIn(GeneratedEmailPatch, events)
    /\ BagIn(GeneratedEmailPatch, events) =>
        /\ DOMAIN list_failed = report.names
        /\ \A f \in report.names : \A st \in Stores \ (IF dry_run THEN {} ELSE list_failed[f]) :
            \E e \in OfKinds(events, ListedKinds) :
                e = ListedEnvelopes(st, f, e.count) /\ CopiesIn(e, events) = 1
    /\ BagIn(ProcessedAllEmailHunks, events) =>
        /\ BagIn(GeneratedEmailPatch, events)
        /\ \A h \in EmailHunks : CopiesIn(ProcessedEmailHunk(h), events) = 1
    /\ pc = "done" => BagIn(ProcessedAllEmailHunks, events)

\* Within a run, no Listed event is emitted after GeneratedEmailPatch and no
\* event at all after ProcessedAllEmailHunks.
EventsStayOrdered ==
    run' = run =>
        /\ BagIn(GeneratedEmailPatch, events) =>
            /\ OfKinds(events', ListedKinds) = OfKinds(events, ListedKinds)
            /\ CopiesIn(GeneratedEmailPatch, events') = 1
        /\ BagIn(ProcessedAllEmailHunks, events) => events' = events

\* C16: the events of one email sync run are emitted in order: every Listed
\* event before GeneratedEmailPatch, GeneratedEmailPatch once and before any
\* ProcessedEmailHunk, ProcessedAllEmailHunks once and after the last
\* ProcessedEmailHunk; and once the listings have started, every backend call
\* returning, ProcessedAllEmailHunks is eventually emitted and sync returns.
C16_EventsInOrder ==
    /\ []EventsWellOrdered
    /\ [][EventsStayOrdered]_vars
    /\ (pc = "listing") ~> (pc = "done" /\ BagIn(ProcessedAllEmailHunks, events))

\* C16, its case: a run over two folders has returned, with the eight Listed
\* events, GeneratedEmailPatch, two ProcessedEmailHunk events and
\* ProcessedAllEmailHunks emitted.
C16_Witness ==
    /\ pc = "done"
    /\ report.names = {"Work", "Old"}
    /\ Cardinality(OfKinds(events, ListedKinds)) = 8
    /\ Cardinality(OfKinds(events, {"ProcessedEmailHunk"})) = 2
    /\ BagIn(GeneratedEmailPatch, events)
    /\ BagIn(ProcessedAllEmailHunks, events)

Holders == {c \in PoolClosures : pool[c].state = "running"}

\* C18: each pool context is held by at most one closure at a time: two
\* closures given to pool.exec never run at once with the same context, and at
\* most PoolSize closures run at once, whatever the interleaving of the
\* listing and hunk tasks of sync.
C18_ContextHeldByOneTask ==
    /\ \A a \in Holders : pool[a].ctx \in Contexts
    /\ \A a, b \in Holders : a # b => pool[a].ctx # pool[b].ctx
    /\ Cardinality(Holders) <= PoolSize

\* Every context is held, by a listing of each folder or by two hunk tasks,
\* while another closure waits for one.
C18_Witness ==
    /\ Cardinality(Holders) = PoolSize
    /\ \E c \in PoolClosures : pool[c] = Waiting
    /\ \/ \E a, b \in Holders : a.kind = "list_envelopes" /\ b.kind = "list_envelopes"
                                /\ a.folder # b.folder
       \/ \E a, b \in Holders : a # b /\ a.kind = "hunk" /\ b.kind = "hunk"

\* The hunks build_patch returned for folder f.
PatchHunks(f) ==
    IF f \in DOMAIN patches THEN {patches[f][i] : i \in 1 .. Len(patches[f])} ELSE {}

\* The cache and the backend of a side, among the inputs of build_patch.
CachedOn(side) == IF side = Left THEN PatchInputs.local_cache ELSE PatchInputs.remote_cache
FoundOn(side) == IF side = Left THEN PatchInputs.local ELSE PatchInputs.remote

\* Folder f is in the cache of `side`, is gone from its backend, and is still
\* in the backend of the other side.
DisappearedFrom(f, side) ==
    /\ f \in CachedOn(side)
    /\ f \notin FoundOn(side)
    /\ f \in FoundOn(Other(side))

\* C19: a folder found in one side's cache but absent from that side's backend
\* is treated as deleted and the deletion is propagated: when it still exists
\* on the other side's backend, the patch of build_patch holds Delete for the
\* other side and no Create for the side it disappeared from.
C19_DeletionPropagated ==
    pc = "built" =>
        \A f \in FolderNames : \A side \in SyncDestination :
            DisappearedFrom(f, side) =>
                /\ Delete(f, Other(side)) \in PatchHunks(f)
                /\ Create(f, side) \notin PatchHunks(f)

\* C19, amended: the deletion is propagated when the other side's cache holds
\* the folder too (rows 1011, 1110): the patch holds Delete for the other side
\* and no Create; when the other side's cache does not hold it (rows 1001,
\* 0110) the folder is taken for new on the other side: the patch holds Create
\* for the side it disappeared from and no Delete.
C19_DeletionPropagatedWhenCachedOnBothSides ==
    pc = "built" =>
        \A f \in FolderNames : \A side \in SyncDestination :
            DisappearedFrom(f, side) =>
                IF f \in CachedOn(Other(side))
                THEN /\ Delete(f, Other(side)) \in PatchHunks(f)
                     /\ \A to \in SyncDestination : Create(f, to) \notin PatchHunks(f)
                ELSE /\ Create(f, side) \in PatchHunks(f)
                     /\ \A to \in SyncDestination : Delete(f, to) \notin PatchHunks(f)

\* One folder gone from Left and cached on both sides (row 1011), the other
\* gone from Left and not cached on Right (row 1001), in one patch.
C19_Witness ==
    /\ pc = "built"
    /\ DisappearedFrom("Old", Left) /\ "Old" \in CachedOn(Right)
    /\ DisappearedFrom("Work", Left) /\ "Work" \notin CachedOn(Right)
    /\ Delete("Old", Right) \in PatchHunks("Old")
    /\ Create("Work", Left) \in PatchHunks("Work")

\* Every CopyThenCache hunk of the model's folders and messages.
CopyThenCacheHunks ==
    {CopyThenCache(f, m, fl, source, Other(source), refresh) :
        f \in FolderNames, m \in Mids, fl \in SUBSET Flag,
        source \in SyncDestination, refresh \in BOOLEAN}

\* The ids of a request.
Requested(ids) == {ids[i] : i \in 1 .. Len(ids)}

\* The last call left every flag of every entry of the folder as it was.
FlagsUntouched == mdir = emails.before

\* C20: peek_messages never sets Seen while get_messages does: on the Maildir
\* backend preview_emails returns the requested messages and changes no flag
\* of any message; get_emails returns the same messages and adds Seen to each
\* requested id, changing nothing else; the task of a CopyThenCache hunk
\* reads the source backend through peek_messages only, so that its read
\* leaves the flags of the source as they were.
C20_PeekNeverSetsSeen ==
    /\ emails.op \in {"preview_emails", "peek_messages"} =>
        /\ FlagsUntouched
        /\ emails.emails = preview_emails(emails.before, emails.ids).emails
        /\ {e.id : e \in {emails.emails[i] : i \in 1 .. Len(emails.emails)}}
             = {id \in Requested(emails.ids) : emails.before[id].has}
        /\ \A i \in 1 .. Len(emails.emails) :
             emails.emails[i].flags = emails.before[emails.emails[i].id].flags
    /\ (emails.op = "get_emails" /\ emails.ok) =>
        /\ emails.emails = preview_emails(emails.before, emails.ids).emails
        /\ \A id \in Requested(emails.ids) : mdir[id].has /\ "Seen" \in mdir[id].flags
        /\ \A id \in InternalIds :
             /\ mdir[id].has = emails.before[id].has
             /\ mdir[id].flags \ {"Seen"} = emails.before[id].flags \ {"Seen"}
             /\ id \notin Requested(emails.ids) => mdir[id] = emails.before[id]
    /\ \A h \in CopyThenCacheHunks : \A i \in 1 .. Len(hunk_ops(h)) :
        op_store(h, hunk_ops(h)[i]) = Backend(h.source) => hunk_ops(h)[i] = "peek_messages"

\* Two unseen messages were read by get_emails, in the order asked, and are
\* now seen.
C20_Witness ==
    /\ emails.op = "get_emails"
    /\ emails.ok
    /\ emails.ids = << "id2", "id1" >>
    /\ emails.emails = << MailEntry("id2", {}), MailEntry("id1", {}) >>
    /\ \A id \in InternalIds : mdir[id] = Envelope({"Seen"})

\* An unseen message was read by the task of a CopyThenCache hunk and is
\* still unseen.
C20_PeekWitness ==
    /\ emails.op = "peek_messages"
    /\ emails.ok
    /\ emails.emails = << MailEntry("id1", {}) >>
    /\ mdir["id1"] = Envelope({})

\* The feature an operation belongs to: the trait Backend<C> implements it for
\* (AddFolder for add_folder, ..., AddMessage for add_message_with_flags).
FeatureOf(op) == IF op = "add_message_with_flags" THEN "add_message" ELSE op

\* The variant of Error that names a feature as not available.
NotAvailableError ==
    [add_folder |-> "AddFolderNotAvailableError",
     list_folders |-> "ListFoldersNotAvailableError",
     expunge_folder |-> "ExpungeFolderNotAvailableError",
     purge_folder |-> "PurgeFolderNotAvailableError",
     delete_folder |-> "DeleteFolderNotAvailableError",
     get_envelope |-> "GetEnvelopeNotAvailableError",
     list_envelopes |-> "ListEnvelopesNotAvailableError",
     watch_envelopes |-> "WatchEnvelopesNotAvailableError",
     add_flags |-> "AddFlagsNotAvailableError",
     set_flags |-> "SetFlagsNotAvailableError",
     remove_flags |-> "RemoveFlagsNotAvailableError",
     add_message |-> "AddMessageNotAvailableError",
     send_message |-> "SendMessageNotAvailableError",
     peek_messages |-> "PeekMessagesNotAvailableError",
     get_messages |-> "GetMessagesNotAvailableError",
     copy_messages |-> "CopyMessagesNotAvailableError",
     move_messages |-> "MoveMessagesNotAvailableError",
     delete_messages |-> "DeleteMessagesNotAvailableError",
     remove_messages |-> "RemoveMessagesNotAvailableError"]

\* The last invocation was answered with the operation's own "feature not
\* available" error and made no call on the context.
AnsweredNotAvailable ==
    /\ invocation.result = Err(NotAvailableError[FeatureOf(invocation.op)])
    /\ invocation.delegated = << >>

C22_WithoutFeaturesDisablesAll ==
    /\ (~builder.consumed /\ builder.without_features) =>
        \A f \in Features : \A offered \in ContextFeatureChoices :
            ~get_feature(builder.src, f, offered)
    /\ (backend.built /\ backend.without_features) =>
        /\ \A f \in Features : ~backend.slots[f]
        /\ invocation.op # "none" => AnsweredNotAvailable

\* The ids of the envelopes of a sequence.
ListedIds(envs) == {envs[i].id : i \in 1 .. Len(envs)}

\* The last call failed with the out-of-bounds error and returned no envelope.
FailedOutOfBounds ==
    /\ ~listing.result.ok
    /\ listing.result.error = "GetEnvelopesOutOfBoundsError"
    /\ listing.result.envelopes = << >>

\* C23: an out-of-range page is an error: list_envelopes of the Maildir and
\* Notmuch backends fails with the out-of-bounds error, returning no envelope,
\* whenever page >= 1 and page * page_size >= the number of envelopes of the
\* folder, the boundary page * page_size = number of envelopes included.
C23_OutOfRangePageIsError ==
    (listing.backend # "none" /\ listing.page >= 1
        /\ listing.page * listing.page_size >= Len(cur)) => FailedOutOfBounds

C25_PurgeRemovesAllEntries ==
    (purged.folder # "none" /\ purged.ok) =>
        \A id \in InternalIds : ~dirs[purged.folder][id].has

\* The last call was a send whose first attempt reached the server.
SentOnce == smtp_call.kind = "send" /\ smtp_call.answers.msg_ok

\* The first send attempt of the last call failed with AuthenticationFailed
\* under OAuth 2.0 authentication.
AuthFailedUnderOAuth2 ==
    /\ SentOnce
    /\ smtp.auth = "OAuth2"
    /\ smtp_call.answers.first = "AuthenticationFailed"

\* C26: an SMTP authentication failure is retried once after an OAuth refresh,
\* then surfaced: under OAuth 2.0, a first send failing with
\* AuthenticationFailed is followed by exactly one refresh of the access
\* token, and once the token is refreshed and the client rebuilt with the new
\* credentials, by exactly one more send, whose failure is the error of the
\* call (a failure of the refresh or of the rebuild is returned as well,
\* without a second send); any other failure of the first send, and any
\* failure under password authentication, is returned without refresh or
\* second send; one send call makes at most two send attempts.
C26_AuthFailureRetriedOnce ==
    LET steps == smtp_call.result.steps
        answers == smtp_call.answers
        rebuilt == answers.refresh_ok /\ answers.credentials_ok /\ answers.connect = "ok"
    IN /\ smtp_call.kind = "send" => Count(steps, "send") <= 2
       /\ AuthFailedUnderOAuth2 =>
            /\ Count(steps, "refresh") = 1
            /\ steps[1] = "send" /\ steps[2] = "refresh"
            /\ rebuilt =>
                 /\ steps = << "send", "refresh", "credentials", "connect", "send" >>
                 /\ smtp.client = "rebuilt" /\ smtp.credentials = "refreshed"
                 /\ smtp_call.result.ok = (answers.second = "ok")
                 /\ answers.second # "ok" =>
                      /\ smtp_call.result.error = "SendEmailError"
                      /\ smtp_call.result.cause = answers.second
            /\ ~rebuilt => ~smtp_call.result.ok /\ Count(steps, "send") = 1
       /\ (SentOnce /\ ~AuthFailedUnderOAuth2) =>
            /\ steps = << "send" >>
            /\ smtp_call.result.ok = (answers.first = "ok")
            /\ answers.first # "ok" =>
                 /\ smtp_call.result.error = "SendEmailError"
                 /\ smtp_call.result.cause = answers.first

\* A first send refused with AuthenticationFailed under OAuth 2.0 was followed
\* by a refresh, a new client and a second send that was refused too, and the
\* call returned that refusal.
C26_Witness ==
    /\ AuthFailedUnderOAuth2
    /\ smtp_call.result.steps = << "send", "refresh", "credentials", "connect", "send" >>
    /\ smtp_call.answers.second = "AuthenticationFailed"
    /\ ~smtp_call.result.ok
    /\ smtp_call.result.cause = "AuthenticationFailed"

\* C27: when the SMTP client cannot be created using OAuth 2.0 authentication
\* (the connection fails with AuthenticationFailed), building the context
\* refreshes the access token first and then, the token refreshed and the
\* credentials read, creates a new client with them, instead of returning the
\* error of the first connection.
C27_BuildRefreshesThenReconnects ==
    (/\ smtp_call.kind = "build"
     /\ smtp.auth = "OAuth2"
     /\ smtp_call.answers.first = "AuthenticationFailed") =>
        /\ Count(smtp_call.result.steps, "refresh") = 1
        /\ (smtp_call.answers.refresh_ok /\ smtp_call.answers.credentials_ok) =>
             /\ Count(smtp_call.result.steps, "connect") = 2
             /\ smtp_call.result.ok = (smtp_call.answers.connect = "ok")

\* C28: set_global_service_name defines the service name used for native
\* keyring entries: after set_global_service_name(n), every native entry
\* created afterwards by Entry (get_secret, find_secret, set_secret,
\* delete_secret) uses n as its service name.
C28_ServiceNameDefined ==
    (requested # "none" /\ native_entry.op # "none") => native_entry.service = requested

\* The names of the header lines of an MML string, in order, and the number
\* of tokens of its header block.
RECURSIVE EmittedNames(_)
EmittedNames(str) ==
    IF str = << >> \/ Head(str).name \in BodyChars THEN << >>
    ELSE << Head(str).name >> \o EmittedNames(Tail(Tail(str)))

\* The names of a sequence that satisfy a test, in order.
RECURSIVE Kept(_, _)
Kept(names, keep) ==
    IF names = << >> THEN << >>
    ELSE (IF Head(names) \in keep THEN << Head(names) >> ELSE << >>) \o Kept(Tail(names), keep)

\* A sequence without the later occurrences of its elements.
FirstOccurrences(names) ==
    Kept([i \in 1 .. Len(names) |->
            IF \E j \in 1 .. (i - 1) : names[j] = names[i] THEN "" ELSE names[i]],
         HeaderNames)

\* The set of the elements of a sequence.
Range(s) == {s[i] : i \in 1 .. Len(s)}

\* The header lines of the MML string are in the order the claim gives.
HeadersInOrder ==
    LET emitted == EmittedNames(mml.str)
        filter == show_headers.filter
    IN /\ filter.kind = "All" => emitted = message.headers
       /\ filter.kind = "Exclude" =>
            emitted = Kept(message.headers, HeaderNames \ Range(filter.keys))
       /\ filter.kind = "Include" =>
            emitted = Kept(FirstOccurrences(show_headers.given), Range(message.headers))

\* The header block is followed by one blank line if and only if it is not
\* empty: what follows it is the body, after one newline when there are
\* header lines and at once when there are none.
BlankLineIffHeaders ==
    LET n == 2 * Len(EmittedNames(mml.str))
        after == SubSeq(mml.str, n + 1, Len(mml.str))
        body == chars(trim_end(message.body))
    IN /\ n > 0 => (after # << >> /\ Head(after) = Newline
                    /\ SubSeq(after, 2, Len(body) + 1) = body)
       /\ n = 0 => SubSeq(after, 1, Len(body)) = body

\* The MML string ends with exactly one newline.
EndsWithOneNewline ==
    /\ mml.str # << >>
    /\ mml.str[Len(mml.str)] = Newline
    /\ Len(mml.str) > 1 => mml.str[Len(mml.str) - 1] # Newline

\* C29: MimeInterpreter::from_msg emits headers in source order for the All
\* and Exclude filters and in include-list order for Include, with duplicate
\* names given to with_show_only_headers collapsed to their first occurrence;
\* the header block is followed by one blank line iff it is non-empty (no
\* leading blank line when all headers are hidden), and the output always ends
\* with exactly one newline.
C29_HeadersOrderedOneTrailingNewline ==
    mml.returned => (HeadersInOrder /\ BlankLineIffHeaders /\ EndsWithOneNewline)

\* The cache hunks returned by the folder hunks the report holds with None.
CollectedCacheHunks ==
    UNION {Range(cache_hunks(e.hunk)) : e \in {x \in BagToSet(report.patch) : ~x.err}}

\* A step of a real run that inserts or deletes a folder-cache row is the
\* transaction of apply_patches: no folder hunk is executing, every hunk of
\* the stream is reported, and the cache hunks of the hunks reported with None
\* are applied in that one step, which ends the folder phase.
CacheChangedInOneTransaction ==
    (/\ ~dry_run
     /\ \/ local_folders_cached' # local_folders_cached
        \/ remote_folders_cached' # remote_folders_cached) =>
        /\ pc = "applying" /\ pc' = "folders_done"
        /\ running = {} /\ spawned = Len(queue)
        /\ \A i \in 1 .. Len(queue) : Finished(i)
        /\ Range(report.cache_patch) = CollectedCacheHunks
        /\ Len(report.cache_patch) = Cardinality(CollectedCacheHunks)
        /\ local_folders_cached' = cache_after(report.cache_patch, Left, local_folders_cached)
        /\ remote_folders_cached' = cache_after(report.cache_patch, Right, remote_folders_cached)

\* C30: in a real run of apply_patches, folder-cache mutations are batched
\* into one transaction at the end of the folder phase: no folder-cache row is
\* inserted or deleted while any folder hunk is still executing, and all the
\* cache hunks collected from the successfully processed hunks are applied
\* together after every hunk has reached a terminal state.
C30_CacheBatchedInOneTransaction == [][CacheChangedInOneTransaction]_vars

\* C30, its case: the transaction of a real run applied two cache hunks, those
\* of the hunks that succeeded, next to a hunk that failed.
C30_Witness ==
    /\ ~dry_run /\ pc = "folders_done"
    /\ ~report.cache_err
    /\ Len(report.cache_patch) = 2
    /\ \E e \in BagToSet(report.patch) : e.err
    /\ local_folders_cached # start.local_cache
    /\ remote_folders_cached # start.remote_cache

\* C31: the folder-cache transaction of apply_patches is all-or-nothing: if
\* any insert or delete of the batch, or the commit, fails, no folder-cache row
\* is changed, the error is stored in the cache_patch error slot of the report,
\* and apply_patches still returns Ok with the per-hunk results: every hunk of
\* the stream is in the report and the folders of the patches are its names.
C31_CacheTransactionAllOrNothing ==
    (~dry_run /\ pc = "folders_done" /\ report.cache_err) =>
        /\ local_folders_cached = start.local_cache
        /\ remote_folders_cached = start.remote_cache
        /\ \A i \in 1 .. Len(queue) : Finished(i)
        /\ BagCardinality(report.patch) = Len(queue)
        /\ report.names = DOMAIN patches

\* C31, its case: the transaction of two cache hunks failed after the hunks
\* were processed, one of them a Create that added its folder; the caches are
\* those of the start of the run and the report holds the three hunks.
C31_Witness ==
    /\ ~dry_run /\ pc = "folders_done" /\ report.cache_err
    /\ Len(report.cache_patch) = 2
    /\ BagCardinality(report.patch) = 3
    /\ local_folders # start.local \/ remote_folders # start.remote
    /\ local_folders_cached = start.local_cache
    /\ remote_folders_cached = start.remote_cache

\* This step writes `value` in store st and changes no other store.
OnlyWritten(st, value) == hunk_stores' = [hunk_stores EXCEPT ![st] = value]

\* The call made in this step succeeds, or fails.
CallSucceeds == hunk_task'.step = hunk_task.step + 1
CallFails == hunk_task.state = "running" /\ hunk_task'.state = "err"

\* The place, among the steps of CopyThenCache, of the next call of the task:
\* 1 the refresh of the source cache, 2 the peek, 3 the add to the target, 4
\* the get_envelope on the target, 5 the write to the target cache; 4 and 5
\* are the step (4) of the claim.
PlaceOfNextCall ==
    hunk_task.step + (IF hunk_task.hunk.refresh THEN 1 ELSE 2)

\* The calls of a CopyThenCache task: each successful call is the next step of
\* the claim, with its effect; a failed call changes no store and ends the
\* task; the task returns Ok after the write to the target cache only.
CopyThenCacheInOrder ==
    LET h == hunk_task.hunk
        source == hunk_stores[Backend(h.source)]
        target == hunk_stores[Backend(h.side)]
    IN h.kind = "CopyThenCache" =>
        /\ CallFails => (hunk_stores' = hunk_stores /\ hunk_task'.step = hunk_task.step)
        /\ CallSucceeds =>
            /\ PlaceOfNextCall \in 1 .. 5
            /\ PlaceOfNextCall = 1 =>
                 (h.refresh /\ OnlyWritten(CacheOf(h.source), Envelope(h.flags)))
            /\ PlaceOfNextCall = 2 => (source.has /\ hunk_stores' = hunk_stores)
            /\ PlaceOfNextCall = 3 => OnlyWritten(Backend(h.side), Envelope(h.flags))
            /\ PlaceOfNextCall = 4 =>
                 (target.has /\ hunk_stores' = hunk_stores /\ hunk_task'.got = target.flags)
            /\ PlaceOfNextCall = 5 => OnlyWritten(CacheOf(h.side), Envelope(target.flags))
            /\ (hunk_task'.state = "ok") <=> (PlaceOfNextCall = 5)

\* C32: CopyThenCache(F, env, source, target, refresh) executes its steps in
\* this order: (1) iff refresh is true, write env's render and flags to the
\* source-side cache; (2) peek the message from the source backend; (3) add it
\* to the target backend with env.flags; (4) fetch the target envelope and
\* write it, with the flags read back from the target, to the target-side
\* cache; a step runs only if all previous steps succeeded.
C32_CopyThenCacheStepsInOrder == [][CopyThenCacheInOrder]_vars

\* C32, its case: a CopyThenCache hunk that refreshes the source cache has
\* returned Ok after its five calls; the source cache and the target backend,
\* empty before, hold the message with the flags of the hunk.
C32_Witness ==
    /\ hunk_task.hunk.kind = "CopyThenCache" /\ hunk_task.hunk.refresh
    /\ hunk_task.state = "ok" /\ hunk_task.step = 5
    /\ ~hunk_task.before[CacheOf(hunk_task.hunk.source)].has
    /\ ~hunk_task.before[Backend(hunk_task.hunk.side)].has
    /\ hunk_stores[CacheOf(hunk_task.hunk.source)] = Envelope(hunk_task.hunk.flags)
    /\ hunk_stores[Backend(hunk_task.hunk.side)] = Envelope(hunk_task.hunk.flags)
    /\ hunk_stores[CacheOf(hunk_task.hunk.side)] = Envelope(hunk_task.hunk.flags)

\* The number of steps of CopyThenCache that succeeded before the task failed,
\* the refresh of the source cache counted whether it was asked for or not:
\* 1 when the peek failed, 2 when the add failed, 3 and 4 when the
\* get_envelope and the write to the target cache failed.
StepsBeforeFailure == PlaceOfNextCall - 1

\* C33: a failing CopyThenCache hunk writes no target-side cache row: if it
\* fails at the peek or at the add, the target backend and the target cache
\* are unchanged while a source-cache refresh already performed is kept; if it
\* fails after the add, the message stays on the target backend without a
\* target cache row; in every case the hunk is reported with Some(err).
C33_FailedCopyWritesNoTargetCacheRow ==
    LET h == hunk_task.hunk
        before == hunk_task.before
        refreshed == [before EXCEPT ![CacheOf(h.source)] =
                         IF h.refresh /\ StepsBeforeFailure >= 1
                         THEN Envelope(h.flags) ELSE @]
    IN (h.kind = "CopyThenCache" /\ hunk_task.state = "err") =>
        /\ hunk_task.reported = <<Entry(h, TRUE)>>
        /\ hunk_stores[CacheOf(h.side)] = before[CacheOf(h.side)]
        /\ StepsBeforeFailure <= 2 => hunk_stores = refreshed
        /\ StepsBeforeFailure >= 3 =>
             hunk_stores = [refreshed EXCEPT ![Backend(h.side)] = Envelope(h.flags)]

\* C33, its cases: a CopyThenCache hunk failed at the peek after it refreshed
\* the source cache, and another failed at the write to the target cache with
\* the message added to the target backend.
C33_WitnessFailedAtPeek ==
    /\ hunk_task.hunk.kind = "CopyThenCache" /\ hunk_task.hunk.refresh
    /\ hunk_task.state = "err" /\ StepsBeforeFailure = 1
    /\ hunk_stores[CacheOf(hunk_task.hunk.source)] = Envelope(hunk_task.hunk.flags)
    /\ hunk_stores # hunk_task.before

C33_Witness ==
    /\ hunk_task.hunk.kind = "CopyThenCache"
    /\ hunk_task.state = "err" /\ StepsBeforeFailure = 4
    /\ ~hunk_task.before[Backend(hunk_task.hunk.side)].has
    /\ ~hunk_task.before[CacheOf(hunk_task.hunk.side)].has
    /\ hunk_stores[Backend(hunk_task.hunk.side)].has
    /\ ~hunk_stores[CacheOf(hunk_task.hunk.side)].has

\* The stores after a hunk that wrote `value` in store st and nothing else.
WrittenSince(before, st, value) == [before EXCEPT ![st] = value]

\* What the four stores hold after the task of hunk h returned Ok, from what
\* they held when it was spawned.
StoresAfter(h, before) ==
    LET backend_env == before[Backend(h.side)]
        cache_env == before[CacheOf(h.side)]
        deleted(env) == IF env.has THEN Envelope(env.flags \cup {"Deleted"}) ELSE env
        updated(env) == IF env.has THEN Envelope(h.flags) ELSE env
    IN CASE h.kind = "GetThenCache" ->
                WrittenSince(before, CacheOf(h.side), Envelope(backend_env.flags))
         [] h.kind = "UpdateFlags" ->
                WrittenSince(before, Backend(h.side), updated(backend_env))
         [] h.kind = "Delete" ->
                WrittenSince(before, Backend(h.side), deleted(backend_env))
         [] h.kind = "UpdateCachedFlags" ->
                WrittenSince(before, CacheOf(h.side), updated(cache_env))
         [] h.kind = "Uncache" ->
                WrittenSince(before, CacheOf(h.side), deleted(cache_env))

\* C34: executing an email hunk mutates only the store it names:
\* GetThenCache(side) reads side's backend and writes only side's cache, with
\* the flags just read; UpdateFlags(side) and Delete(side) change only side's
\* backend; UpdateCachedFlags(side) and Uncache(side) change only side's cache;
\* Delete and Uncache add the Deleted flag to the one message and remove no
\* message; UpdateFlags and UpdateCachedFlags replace the message's flags by
\* envelope.flags.
C34_HunkMutatesOnlyItsStore ==
    LET h == hunk_task.hunk
        before == hunk_task.before
    IN h.kind # "CopyThenCache" =>
        /\ hunk_task.state # "ok" => hunk_stores = before
        /\ hunk_task.state = "ok" => hunk_stores = StoresAfter(h, before)
        /\ (hunk_task.state = "ok" /\ h.kind = "GetThenCache") => before[Backend(h.side)].has
        /\ h.kind \in {"Delete", "Uncache"} =>
             \A st \in Stores : hunk_stores[st].has = before[st].has

\* C34, its case: a Delete hunk returned Ok; the message of its backend, which
\* the cache of that side holds too, has the Deleted flag it had not, and the
\* cache is as it was.
C34_Witness ==
    /\ hunk_task.hunk.kind = "Delete" /\ hunk_task.state = "ok"
    /\ hunk_task.before[Backend(hunk_task.hunk.side)].has
    /\ hunk_task.before[CacheOf(hunk_task.hunk.side)].has
    /\ "Deleted" \notin hunk_task.before[Backend(hunk_task.hunk.side)].flags
    /\ "Deleted" \notin hunk_task.before[CacheOf(hunk_task.hunk.side)].flags
    /\ "Deleted" \in hunk_stores[Backend(hunk_task.hunk.side)].flags
    /\ hunk_stores[CacheOf(hunk_task.hunk.side)] = hunk_task.before[CacheOf(hunk_task.hunk.side)]

\* C34, another case: a GetThenCache hunk returned Ok and wrote in the cache
\* a row it did not hold.
C34_WitnessGetThenCache ==
    /\ hunk_task.hunk.kind = "GetThenCache" /\ hunk_task.state = "ok"
    /\ ~hunk_task.before[CacheOf(hunk_task.hunk.side)].has
    /\ hunk_stores[CacheOf(hunk_task.hunk.side)] = hunk_stores[Backend(hunk_task.hunk.side)]

\* The folders of the four inputs of build_patch.
InputFolders ==
    PatchInputs.local_cache \cup PatchInputs.local
        \cup PatchInputs.remote_cache \cup PatchInputs.remote

\* The hunks of all the patches build_patch returned.
AllPatchHunks == UNION {PatchHunks(f) : f \in DOMAIN patches}

\* C35: the map returned by build_patch has exactly one entry for every folder
\* of Lc, L, Rc and R, with an empty hunk list for a folder present in all
\* four, and no entry for any other folder; four empty inputs give an empty
\* map; every hunk of a folder's list names that folder.
C35_OneEntryPerFolder ==
    pc = "built" =>
        /\ DOMAIN patches = InputFolders
        /\ \A f \in InputFolders :
             Vector(f, PatchInputs) = <<1, 1, 1, 1>> => patches[f] = << >>
        /\ InputFolders = {} => patches = << >>
        /\ \A f \in DOMAIN patches : \A h \in PatchHunks(f) : h.folder = f

\* C35, its case: "Work" is in the four inputs and has an entry without hunk,
\* "Old" is in none and has no entry.
C35_Witness ==
    /\ pc = "built"
    /\ Vector("Work", PatchInputs) = <<1, 1, 1, 1>>
    /\ Vector("Old", PatchInputs) = <<0, 0, 0, 0>>
    /\ DOMAIN patches = {"Work"}
    /\ patches["Work"] = << >>

\* The input set of build_patch a hunk acts on: the backend or the cache of
\* its side.
InputSetOf(h) ==
    IF IsBackendHunk(h)
    THEN IF h.side = Left THEN PatchInputs.local ELSE PatchInputs.remote
    ELSE IF h.side = Left THEN PatchInputs.local_cache ELSE PatchInputs.remote_cache

\* C36: every hunk emitted by build_patch is applicable in the input state:
\* Create(side) only when the folder is absent from that side's backend,
\* Delete(side) only when it is present on it, Cache(side) only when it is
\* absent from that side's cache, Uncache(side) only when it is present in it.
C36_HunksApplicable ==
    pc = "built" =>
        \A h \in AllPatchHunks :
            /\ h.kind \in {"Create", "Cache"} => h.folder \notin InputSetOf(h)
            /\ h.kind \in {"Delete", "Uncache"} => h.folder \in InputSetOf(h)

\* C36, its case: a patch with a Create, a Cache, a Delete and an Uncache hunk.
C36_Witness ==
    /\ pc = "built"
    /\ Vector("Work", PatchInputs) = <<1, 1, 1, 0>>
    /\ Vector("Old", PatchInputs) = <<0, 0, 0, 1>>
    /\ {h.kind : h \in AllPatchHunks} = {"Create", "Cache", "Delete", "Uncache"}

\* The store and side a hunk is applied to.
Target(h) == <<IsBackendHunk(h), h.side>>

\* A set of folders after the hunks of the patch that add to it (kind `add`)
\* and remove from it (kind `remove`) on one side.
Applied(folders, add, remove, side) ==
    (folders \cup {h.folder : h \in {x \in AllPatchHunks : x.kind = add /\ x.side = side}})
        \ {h.folder : h \in {x \in AllPatchHunks : x.kind = remove /\ x.side = side}}

\* C37: no patch contains, for one folder and one side, both Cache and Uncache
\* or both Create and Delete, and every hunk of a row targets a distinct
\* (store, side) pair; hence when all hunks succeed, the final contents of the
\* two backends and the two caches do not depend on the order in which the
\* concurrently spawned hunks complete or their cache hunks are committed.
C37_HunksCommute ==
    /\ pc = "built" =>
        \A f \in DOMAIN patches :
            /\ \A side \in SyncDestination :
                /\ ~(Cache(f, side) \in PatchHunks(f) /\ Uncache(f, side) \in PatchHunks(f))
                /\ ~(Create(f, side) \in PatchHunks(f) /\ Delete(f, side) \in PatchHunks(f))
            /\ \A i, j \in 1 .. Len(patches[f]) :
                Target(patches[f][i]) = Target(patches[f][j]) => i = j
    /\ (FolderPhaseClean /\ pc = "folders_done") =>
        /\ local_folders = Applied(start.local, "Create", "Delete", Left)
        /\ remote_folders = Applied(start.remote, "Create", "Delete", Right)
        /\ local_folders_cached = Applied(start.local_cache, "Cache", "Uncache", Left)
        /\ remote_folders_cached = Applied(start.remote_cache, "Cache", "Uncache", Right)

\* C37, its case: the three hunks of row 1011 of "Work" and the three of row
\* 0001 of "Old" all succeeded and the cache transaction committed.
C37_Witness ==
    /\ FolderPhaseClean
    /\ pc = "folders_done"
    /\ Vector("Work", start) = <<1, 0, 1, 1>>
    /\ Vector("Old", start) = <<0, 0, 0, 1>>
    /\ DOMAIN patches = {"Work", "Old"}
    /\ Len(patches["Work"]) = 3 /\ Len(patches["Old"]) = 3
    /\ Vector("Work", Snapshot) = <<0, 0, 0, 0>>
    /\ Vector("Old", Snapshot) = <<1, 1, 1, 1>>

\* C38: build_patch emits Delete(side) only when the folder is recorded in both
\* caches, is missing from the other side's backend and exists on side's
\* backend (rows 1011 and 1110); a folder missing from either cache is never
\* deleted from a backend; no row deletes the folder from both backends.
C38_DeleteOnlyWhenCachedOnBothSides ==
    pc = "built" =>
        \A f \in DOMAIN patches :
            LET v == Vector(f, PatchInputs)
                deleted_on(side) == Delete(f, side) \in PatchHunks(f)
            IN /\ deleted_on(Left) => v = <<1, 1, 1, 0>>
               /\ deleted_on(Right) => v = <<1, 0, 1, 1>>
               /\ (v[1] = 0 \/ v[3] = 0) => ~(deleted_on(Left) \/ deleted_on(Right))
               /\ ~(deleted_on(Left) /\ deleted_on(Right))

\* C38, its case: "Work", cached on both sides and missing on Left, is deleted
\* from Right, and "Old", cached on both sides and missing on Right, from Left.
C38_Witness ==
    /\ pc = "built"
    /\ Vector("Work", PatchInputs) = <<1, 0, 1, 1>>
    /\ Vector("Old", PatchInputs) = <<1, 1, 1, 0>>
    /\ Delete("Work", Right) \in PatchHunks("Work")
    /\ Delete("Old", Left) \in PatchHunks("Old")

\* The builder is as BackendBuilder::new made it.
JustCreated == ~builder.consumed /\ builder.sets = 0 /\ ~builder.without_features

\* What the claim gives for one feature of a Backend built from the sources
\* src on a context builder that offers the features of `offered`.
Resolved(src, feature, offered) ==
    IF src[feature] = "None" THEN NoFeature
    ELSE IF src[feature] = "Backend" THEN OverrideFeature
    ELSE IF feature \in offered THEN ContextFeature ELSE NoFeature

\* A call of set_<feature>, with_<feature>, without_<feature> or
\* with_context_<feature> changes the source of one feature at most.
SetterLeavesOtherFeatures ==
    builder'.sets = builder.sets + 1 =>
        \E feature \in BuilderFeatures :
            \A other \in BuilderFeatures \ {feature} :
                builder'.src[other] = builder.src[other]

\* C39: a BackendBuilder created by new takes every feature from the context
\* builder; for each feature independently, get_<feature> returns None when the
\* source is None, the context builder's feature when it is Context and the
\* override f when it is Backend(f); the with_/without_/with_context_ setters
\* of one feature leave the sources of all other features unchanged; the
\* Backend produced by try_into_backend holds exactly these resolved features.
C39_FeaturesResolvedPerSource ==
    /\ [](JustCreated => \A f \in BuilderFeatures : builder.src[f] = "Context")
    /\ [](\A f \in Features : \A offered \in ContextFeatureChoices :
            get_feature_returns(builder.src, f, offered)
                = Resolved(builder.src, f, offered))
    /\ [](backend.built =>
            \A f \in Features :
                /\ backend.features[f] = Resolved(backend.src, f, backend.offered)
                /\ backend.slots[f] = (backend.features[f] # NoFeature))
    /\ [][SetterLeavesOtherFeatures]_vars

\* C39, its case: a Backend built from a builder with one feature overridden,
\* one disabled and the others taken from a context builder that offers
\* them: it holds the override, nothing for the disabled feature, and the
\* features of the context builder.
C39_Witness ==
    /\ backend.built
    /\ \E f, g \in Features :
        /\ backend.src[f] = "Backend" /\ backend.features[f] = OverrideFeature
        /\ backend.src[g] = "None" /\ backend.features[g] = NoFeature
        /\ \A h \in Features \ {f, g} :
            backend.src[h] = "Context" /\ backend.features[h] = ContextFeature

\* The values of the state parameters and of the code parameters of the
\* redirect request.
StateParameters ==
    {redirection.query[i].value :
        i \in {j \in 1 .. Len(redirection.query) : redirection.query[j].key = "state"}}
CodeParameters ==
    {redirection.query[i].value :
        i \in {j \in 1 .. Len(redirection.query) : redirection.query[j].key = "code"}}

\* C40: wait_for_redirection exchanges the authorization code for tokens only
\* if the state parameter of the redirect request equals the expected CSRF
\* token: with a missing state, a different state or a missing code it returns
\* an error without writing the success response and without making any token
\* request; the PKCE verifier is sent with the exchange iff PKCE was configured.
C40_ExchangeOnlyWithExpectedState ==
    redirection.called =>
        /\ redirection.done.requests # << >> =>
            /\ redirection.has_url
            /\ redirection.csrf_state \in StateParameters
            /\ redirection.done.requests[1].code \in CodeParameters
            /\ Len(redirection.done.requests) = 1
        /\ (\/ StateParameters = {}
            \/ redirection.csrf_state \notin StateParameters
            \/ CodeParameters = {}) =>
            /\ ~redirection.done.result.ok
            /\ ~redirection.done.response
            /\ redirection.done.requests = << >>
        /\ redirection.done.result.ok =>
            (redirection.done.response /\ redirection.done.requests # << >>)
        /\ \A i \in 1 .. Len(redirection.done.requests) :
            redirection.done.requests[i].pkce_verifier = grant.pkce

\* C40, its case: a redirect request with the expected state and a code, on a
\* grant with PKCE: the response is written and the code is exchanged with the
\* verifier.
C40_Witness ==
    /\ redirection.called
    /\ grant.pkce
    /\ redirection.query = << QueryPair("state", redirection.csrf_state),
                              QueryPair("code", "code1") >>
    /\ redirection.done = Redirected(TRUE, << TokenRequest("code1", TRUE) >>, Ok("tokens"))

\* C40, another case: a redirect request with a code and another state than
\* the expected one is answered with InvalidStateError.
C40_WitnessInvalidState ==
    /\ redirection.called
    /\ redirection.query = << QueryPair("code", "code1"), QueryPair("state", "csrf2") >>
    /\ redirection.csrf_state = "csrf1"
    /\ redirection.done = Redirected(FALSE, << >>, Err("InvalidStateError"))

====
